---- MODULE Spec2Model ----
(***************************************************************************)
(* A model of the live-value engine of snapshot (src/snapshot/core.py):    *)
(* the background worker registry (_BackgroundWorkers), the per-PV cache   *)
(* entry (SnapshotPv) and the polling thread (PvUpdater); and of the file  *)
(* parsers (src/snapshot/parser.py): SnapshotReqFile.read() and            *)
(* parse_from_save_file().                                                 *)
(*                                                                         *)
(* Threads are modelled step by step: one action per statement that reads  *)
(* or writes shared state, with the thread's position kept in a pc         *)
(* variable and its locals in per-thread variables.                        *)
(***************************************************************************)
EXTENDS Integers, Sequences, FiniteSets, TLC

\* ------------------------------------------------------------------ bounds
NumCallers == 2   \* threads calling into the registry / the entries
NumWorkers == 2   \* background workers that can be registered
NumPvs == 2       \* SnapshotPv objects that exist
MaxCount == 3     \* nesting depth of suspend() calls explored
MaxFetch == 2     \* fetches of the value property counted per entry
MaxNum == 2       \* numbers 0..MaxNum as the elements of compared values
MaxLen == 2       \* length of the arrays compared
MaxTol == 1       \* tolerances 0..MaxTol
NumFiles == 2     \* request files that exist
MaxLines == 2     \* lines of a request file
MaxSaveLines == 3 \* lines of a save file

Callers == 1..NumCallers
Workers == 1..NumWorkers
PVs == 1..NumPvs

\* the thread of PvUpdater._run, as a holder of locks
UpdaterThread == NumCallers + 1

\* the PvUpdater whose thread is modelled, and the entry the callers use
TheUpdater == CHOOSE w \in Workers : \A x \in Workers : w <= x
Entry == CHOOSE p \in PVs : \A q \in PVs : p <= q

VARIABLES
  \* _BackgroundWorkers
  _workers,   \* self._workers : list of registered workers
  _count,     \* self._count
  _suspend,   \* PvUpdater._suspend of each worker
  \* a thread inside _BackgroundWorkers.suspend() / resume()
  rpc,        \* position of each caller
  rtmp,       \* value of self._count loaded by "+= 1" / "-= 1"
  ridx,       \* position of "for w in self._workers"
  rpre,       \* history: self._count when the call began
  rinv,       \* history: workers whose suspend()/resume() the call invoked
  rheld,      \* history: the caller's last completed call was suspend()
  \* SnapshotPv, per entry
  is_array,          \* self.is_array
  _last_value,       \* self._last_value
  _initialized,      \* self._initialized
  _pvget_lock,       \* self._pvget_lock : the set of threads holding it
  _pvget_completer,  \* self._pvget_completer is not None
  \* PvUpdater
  _pvs,       \* self._pvs
  _quit,      \* self._quit
  _lock,      \* self._lock is held by the thread of _run
  upc,        \* position of the thread of _run
  uidx,       \* position in "for pv in self._pvs"
  vals,       \* the list vals of _run
  spc,        \* position of the caller of stop()
  uobs,       \* history: what the latest step of the cycle met on its entry
  uwait,      \* history: periods the cycle has waited in _get_complete
  \* a thread inside SnapshotPv.value / save_pv / restore_pv
  cpc,        \* position
  cop,        \* the method called
  cpv,        \* the entry it is called on
  carg,       \* restore_pv: the argument value
  cval,       \* the local "value" / "saved_value"
  ccache,     \* history: self._last_value as the value property read it
  cconn,      \* history: what self.connected answered
  cacc,       \* history: what self.read_access / self.write_access answered
  cstat,      \* history: statuses reported (returned, or passed to callback)
  cput,       \* history: the put() issued by restore_pv
  cret,       \* save_pv: the value returned
  nfetch,     \* history: fetches made by the value property, per entry
  \* a call of the static method SnapshotPv.compare
  compare_call,  \* its arguments and what it returned
  \* SnapshotReqFile(...).read()
  req_files,     \* the request files on disk: the lines of each
  req_chain,     \* the SnapshotReqFile objects being read, root first, each
                 \* the _parent of the next
  req_result,    \* what the root's read() returned or raised
  \* parse_from_save_file(save_file_path, metadata_only)
  saved_file,    \* the lines of the save file
  metadata_only, \* the argument
  save_pc,       \* "idle", "for" (in the loop over the lines), "end" (after it), "done"
  save_line_n,   \* how many lines the loop has taken from saved_file
  saved_pvs,     \* dict: PV name -> value
  meta_data,     \* the decoded meta data
  err,           \* list of errors
  meta_loaded    \* the flag

regvars == <<_workers, _count, _suspend, rpc, rtmp, ridx, rpre, rinv, rheld>>
entryvars == <<is_array, _last_value, _initialized, _pvget_lock, _pvget_completer>>
updvars == <<_pvs, _quit, _lock, upc, uidx, vals, spc, uobs, uwait>>
callvars == <<cpc, cop, cpv, carg, cval, ccache, cconn, cacc, cstat, cput, cret, nfetch>>
savevars == <<saved_file, metadata_only, save_pc, save_line_n, saved_pvs, meta_data, err, meta_loaded>>
fnvars == <<compare_call, req_files, req_chain, req_result, savevars>>
vars == <<regvars, entryvars, updvars, callvars, fnvars>>

\* the registry apart from the workers' flags
regonly == <<_workers, _count, rpc, rtmp, ridx, rpre, rinv, rheld>>
\* everything but the registry
nonreg == <<entryvars, updvars, callvars, fnvars>>

\* ------------------------------------------------------------- helpers
Range(s) == {s[i] : i \in 1..Len(s)}

\* list.index(x): position of the first occurrence
IndexOf(s, x) == CHOOSE i \in 1..Len(s) : s[i] = x /\ \A j \in 1..(i-1) : s[j] # x

\* del list[i]
DelAt(s, i) == SubSeq(s, 1, i-1) \o SubSeq(s, i+1, Len(s))

\* -------------------------------------------------------------- values
\* A Python value as the code sees it: None, a scalar, or a numpy.ndarray.
None == [kind |-> "none", elems |-> <<>>]
Scalar(x) == [kind |-> "scalar", elems |-> <<x>>]
NdArray(xs) == [kind |-> "ndarray", elems |-> xs]
\* numpy.asarray([None]): a one-element array of dtype object
ArrayOfNone == [kind |-> "ndarray_object", elems |-> <<>>]

IsNone(v) == v.kind = "none"

\* numpy.size(v); numpy.size(None) is 1
Size(v) == IF v.kind = "ndarray" THEN Len(v.elems) ELSE 1

\* what a channel access get can deliver (a waveform with one element arrives
\* as a scalar, an empty one as an empty array) ...
PvValues == {Scalar(1), NdArray(<<>>), NdArray(<<1, 2>>)}
\* ... or None when it times out
GetResults == PvValues \cup {None}
\* the values restore_pv is called with
RestoreArgs == {None, Scalar(1), NdArray(<<1, 2>>)}

Abs(x) == IF x < 0 THEN -x ELSE x

\* numpy broadcasting of a scalar or 1-d array against another
Broadcastable(a, b) ==
  \/ a.kind = "scalar" \/ b.kind = "scalar"
  \/ Len(a.elems) = Len(b.elems)
  \/ Len(a.elems) = 1 \/ Len(b.elems) = 1

BroadcastLen(a, b) ==
  IF a.kind = "scalar" THEN Size(b)
  ELSE IF b.kind = "scalar" THEN Size(a)
  ELSE IF Len(a.elems) = 1 THEN Len(b.elems)
  ELSE Len(a.elems)

ElemAt(v, i) == IF Len(v.elems) = 1 THEN v.elems[1] ELSE v.elems[i]

\* numpy.allclose(a, b, atol=tol, rtol=0) on broadcastable numeric operands
AllClose_Strict(a, b, tol) ==
  \A i \in 1..BroadcastLen(a, b) : Abs(ElemAt(a, i) - ElemAt(b, i)) < tol

AllClose(a, b, tol) ==
  \A i \in 1..BroadcastLen(a, b) : Abs(ElemAt(a, i) - ElemAt(b, i)) <= tol

\* SnapshotPv.compare: the normalisation of one operand when is_array
CompareNormalize_KeepEmpty(v) ==
  IF ~IsNone(v) /\ v.kind # "ndarray" /\ Size(v) = 1 THEN NdArray(v.elems)
  ELSE v

CompareNormalize(v) ==
  IF ~IsNone(v) /\ v.kind # "ndarray" /\ Size(v) = 1 THEN NdArray(v.elems)
  ELSE IF Size(v) = 0 THEN None
  ELSE v

CompareOperand(v, isarr) == IF isarr THEN CompareNormalize(v) ELSE v

\* SnapshotPv.compare raises (numpy.allclose on shapes that do not broadcast)
CompareRaises(value1, value2, isarr, tolerance) ==
  LET v1 == CompareOperand(value1, isarr)
      v2 == CompareOperand(value2, isarr)
  IN  ~IsNone(v1) /\ ~IsNone(v2) /\ ~Broadcastable(v1, v2)

\* SnapshotPv.compare, when it returns
Compare(value1, value2, isarr, tolerance) ==
  LET v1 == CompareOperand(value1, isarr)
      v2 == CompareOperand(value2, isarr)
  IN  IF IsNone(v1) \/ IsNone(v2) THEN IsNone(v1) /\ IsNone(v2)
      ELSE AllClose(v1, v2, tolerance)

\* save_pv: the treatment of the fetched value of an array-typed entry
SaveNormalize(saved_value, isarr) ==
  IF ~isarr THEN saved_value
  ELSE IF Size(saved_value) = 0 THEN None
  ELSE IF Size(saved_value) = 1
    THEN (IF IsNone(saved_value) THEN ArrayOfNone ELSE NdArray(saved_value.elems))
  ELSE saved_value

\* the values SnapshotPv.compare is called with
Numbers == 0..MaxNum
CmpValues ==
  {None} \cup {Scalar(x) : x \in Numbers}
         \cup {NdArray(xs) : xs \in UNION {[1..n -> Numbers] : n \in 0..MaxLen}}
Tolerances == 0..MaxTol

\* no call of compare
CompareIdle ==
  compare_call = [value1 |-> None, value2 |-> None, is_array |-> FALSE,
                  tolerance |-> 0, result |-> "idle"]

\* a call of compare(value1, value2, is_array, tolerance) with any arguments
CompareInit ==
  compare_call \in [value1 : CmpValues, value2 : CmpValues, is_array : BOOLEAN,
                    tolerance : Tolerances, result : {"called"}]

\* compare returns True or False, or numpy raises ValueError
CompareReturn ==
  /\ compare_call.result = "called"
  /\ LET c == compare_call IN
     compare_call' = [c EXCEPT !.result =
       IF CompareRaises(c.value1, c.value2, c.is_array, c.tolerance) THEN "ValueError"
       ELSE IF Compare(c.value1, c.value2, c.is_array, c.tolerance) THEN "True"
       ELSE "False"]
  /\ UNCHANGED <<req_files, req_chain, req_result, savevars>>
  /\ UNCHANGED <<regvars, entryvars, updvars, callvars>>

\* --------------------------------------------------------- save files
\* The value literals a line of a save file carries after its first comma,
\* and json.loads on them: "1" and "null" decode to a value, "[1, 0]" to a
\* list, "1." raises json.JSONDecodeError.
JsonLiterals == {"1", "null", "[1, 0]", "1."}

JSONDecodeError == [kind |-> "JSONDecodeError", elems |-> <<>>]
PyList(xs) == [kind |-> "list", elems |-> xs]

json_loads(str) ==
  CASE str = "1" -> Scalar(1)
    [] str = "null" -> None
    [] str = "[1, 0]" -> PyList(<<1, 0>>)
    [] OTHER -> JSONDecodeError

\* numpy.asarray(list)
asarray(list) == NdArray(list.elems)

\* The lines of a save file: a blank line, a line that starts with "#"
\* (its rest valid JSON or not), a line "pvname" or "pvname,literal".
SaveNames == {"a", "b", "c"}

SaveBlank ==
  [kind |-> "blank", json_ok |-> FALSE, pvname |-> "", has_value |-> FALSE, literal |-> ""]
SaveHash(json_ok) ==
  [kind |-> "hash", json_ok |-> json_ok, pvname |-> "", has_value |-> FALSE, literal |-> ""]
SavePv(pvname, has_value, literal) ==
  [kind |-> "pv", json_ok |-> FALSE, pvname |-> pvname, has_value |-> has_value, literal |-> literal]

SaveLines ==
  {SaveBlank} \cup {SaveHash(ok) : ok \in BOOLEAN}
    \cup {SavePv(name, FALSE, "") : name \in SaveNames}
    \cup {SavePv(name, TRUE, lit) : name \in SaveNames, lit \in JsonLiterals}

\* the errors of the list err
MetaError == [about |-> "meta data could not be decoded", pvname |-> ""]
NoMetaError == [about |-> "no meta data", pvname |-> ""]
ValueError(pvname) == [about |-> "value cannot be decoded", pvname |-> pvname]

\* dict[key] = val
DictPut(dict, key, val) ==
  [k \in DOMAIN dict \cup {key} |-> IF k = key THEN val ELSE dict[k]]

EmptyDict == [k \in {} |-> None]

\* parse_from_save_file is not being called
SaveIdle ==
  /\ saved_file = <<>>
  /\ metadata_only = FALSE
  /\ save_pc = "idle"
  /\ save_line_n = 0
  /\ saved_pvs = EmptyDict
  /\ meta_data = "{}"
  /\ err = <<>>
  /\ meta_loaded = FALSE

\* parse_from_save_file(save_file_path, metadata_only) is entered: the
\* locals are set, the file is open
SaveCalled ==
  /\ saved_file \in UNION {[1..n -> SaveLines] : n \in 0..MaxSaveLines}
  /\ metadata_only \in BOOLEAN
  /\ save_pc = "for"
  /\ save_line_n = 0
  /\ saved_pvs = EmptyDict
  /\ meta_data = "{}"
  /\ err = <<>>
  /\ meta_loaded = FALSE

SaveAtLine == save_pc = "for" /\ save_line_n < Len(saved_file)
SaveLine == saved_file[save_line_n + 1]

\* the value a PV line gives, or JSONDecodeError
SaveLineValue(line) ==
  IF ~line.has_value THEN None
  ELSE LET pv_value == json_loads(line.literal)
       IN  IF pv_value.kind = "list" THEN asarray(pv_value) ELSE pv_value

\* one pass of "for line in saved_file" that stores no decoded value
ParseLine_DropOnError ==
  /\ SaveAtLine
  /\ save_line_n' = save_line_n + 1
  /\ IF SaveLine.kind = "hash" /\ ~meta_loaded
       THEN /\ meta_data' = (IF SaveLine.json_ok THEN "meta" ELSE meta_data)
            /\ err' = (IF SaveLine.json_ok THEN err ELSE Append(err, MetaError))
            /\ meta_loaded' = TRUE
            /\ save_pc' = (IF metadata_only THEN "end" ELSE "for")
            /\ UNCHANGED saved_pvs
       ELSE IF ~metadata_only /\ SaveLine.kind = "pv"
         THEN /\ LET pv_value == SaveLineValue(SaveLine)
                 IN  IF pv_value = JSONDecodeError
                       THEN /\ err' = Append(err, ValueError(SaveLine.pvname))
                            /\ UNCHANGED saved_pvs
                       ELSE /\ saved_pvs' = DictPut(saved_pvs, SaveLine.pvname, pv_value)
                            /\ UNCHANGED err
              /\ UNCHANGED <<meta_data, meta_loaded, save_pc>>
         ELSE UNCHANGED <<saved_pvs, meta_data, err, meta_loaded, save_pc>>
  /\ UNCHANGED <<saved_file, metadata_only>>
  /\ UNCHANGED <<compare_call, req_files, req_chain, req_result>>
  /\ UNCHANGED <<regvars, entryvars, updvars, callvars>>

\* one pass of "for line in saved_file"
ParseLine ==
  /\ SaveAtLine
  /\ save_line_n' = save_line_n + 1
  /\ IF SaveLine.kind = "hash" /\ ~meta_loaded
       THEN /\ meta_data' = (IF SaveLine.json_ok THEN "meta" ELSE meta_data)
            /\ err' = (IF SaveLine.json_ok THEN err ELSE Append(err, MetaError))
            /\ meta_loaded' = TRUE
            /\ save_pc' = (IF metadata_only THEN "end" ELSE "for")
            /\ UNCHANGED saved_pvs
       ELSE IF ~metadata_only /\ SaveLine.kind = "pv"
         THEN /\ LET pv_value == SaveLineValue(SaveLine)
                 IN  /\ err' = (IF pv_value = JSONDecodeError
                                  THEN Append(err, ValueError(SaveLine.pvname))
                                  ELSE err)
                     /\ saved_pvs' = DictPut(saved_pvs, SaveLine.pvname,
                                             IF pv_value = JSONDecodeError THEN None ELSE pv_value)
              /\ UNCHANGED <<meta_data, meta_loaded, save_pc>>
         ELSE UNCHANGED <<saved_pvs, meta_data, err, meta_loaded, save_pc>>
  /\ UNCHANGED <<saved_file, metadata_only>>
  /\ UNCHANGED <<compare_call, req_files, req_chain, req_result>>
  /\ UNCHANGED <<regvars, entryvars, updvars, callvars>>

\* the loop is over (no line left, or the break): the check of meta_loaded,
\* saved_file.close() and the return
ParseReturn ==
  /\ save_pc = "end" \/ (save_pc = "for" /\ ~SaveAtLine)
  /\ save_pc' = "done"
  /\ err' = (IF ~meta_loaded THEN <<NoMetaError>> \o err ELSE err)
  /\ UNCHANGED <<saved_file, metadata_only, save_line_n, saved_pvs, meta_data, meta_loaded>>
  /\ UNCHANGED <<compare_call, req_files, req_chain, req_result>>
  /\ UNCHANGED <<regvars, entryvars, updvars, callvars>>

\* ------------------------------------------------------ request files
\* Text is a sequence of tokens: a piece of literal text, or a macro
\* reference "$(KEY)".
Lit(str) == [t |-> "lit", s |-> str]
Mac(key) == [t |-> "mac", s |-> key]

\* the names macros have
MacroNames == {"X", "Y"}

\* a dict of macros: its items in insertion order, one per key
Item(key, val) == [key |-> key, val |-> val]

Keys(macros) == {macros[i].key : i \in 1..Len(macros)}
Values(macros) == {macros[i].val : i \in 1..Len(macros)}

\* macros[key] = val: a new key goes to the end, a known key keeps its place
DictSet(macros, key, val) ==
  IF key \in Keys(macros)
    THEN [i \in 1..Len(macros) |->
            IF macros[i].key = key THEN Item(key, val) ELSE macros[i]]
    ELSE Append(macros, Item(key, val))

\* txt.replace("$(" + key + ")", val)
RECURSIVE Replace(_, _, _)
Replace(txt, key, val) ==
  IF txt = <<>> THEN <<>>
  ELSE (IF Head(txt) = Mac(key) THEN val ELSE <<Head(txt)>>)
         \o Replace(Tail(txt), key, val)

\* SnapshotPv.macros_substitution(txt, macros): one replace per key, in the
\* order of the dict
RECURSIVE macros_substitution(_, _)
macros_substitution(txt, macros) ==
  IF macros = <<>> THEN txt
  ELSE macros_substitution(Replace(txt, Head(macros).key, Head(macros).val),
                           Tail(macros))

\* _validate_macros_in_txt(txt): the macros it lists in its MacroError (none:
\* no error); a "$(KEY)" passes when it is the value of one of self._macros
\* or KEY is in self._c_macros
invalid_macros(txt, macros, c_macros) ==
  {txt[i].s : i \in {j \in 1..Len(txt) :
       /\ txt[j].t = "mac"
       /\ <<txt[j]>> \notin Values(macros)
       /\ txt[j].s \notin c_macros}}

\* The macros argument of an include line: the pieces between its commas,
\* each "KEY=value" (wellformed) or not.
Piece(key, val, wellformed) == [key |-> key, val |-> val, wellformed |-> wellformed]

\* the text of a macros argument, as far as macro references go
RECURSIVE MacroTxt(_)
MacroTxt(pieces) ==
  IF pieces = <<>> THEN <<>> ELSE Head(pieces).val \o MacroTxt(Tail(pieces))

\* macros_substitution on a macros argument (keys hold no references)
SubstitutePieces(pieces, macros) ==
  [i \in 1..Len(pieces) |->
     [pieces[i] EXCEPT !.val = macros_substitution(pieces[i].val, macros)]]

\* parse_macros(macros_str) raises MacroError
ParseMacrosRaises(pieces) == \E i \in 1..Len(pieces) : ~pieces[i].wellformed

\* parse_macros(macros_str): the dict
RECURSIVE ParseInto(_, _)
ParseInto(macros, pieces) ==
  IF pieces = <<>> THEN macros
  ELSE ParseInto(DictSet(macros, Head(pieces).key, Head(pieces).val), Tail(pieces))

parse_macros(pieces) == ParseInto(<<>>, pieces)

\* The lines of a request file.
SkipLine ==
  [kind |-> "skip", txt |-> <<>>, path |-> 0, has_arg |-> FALSE, quoted |-> FALSE, arg |-> <<>>]
PvNameLine(txt) ==
  [kind |-> "pv", txt |-> txt, path |-> 0, has_arg |-> FALSE, quoted |-> FALSE, arg |-> <<>>]
IncludeLine(path, has_arg, quoted, arg) ==
  [kind |-> "inc", txt |-> <<>>, path |-> path, has_arg |-> has_arg, quoted |-> quoted, arg |-> arg]

\* the request files that exist
Paths == 1..NumFiles
RootPath == CHOOSE p \in Paths : \A q \in Paths : p <= q

\* SnapshotReqFile(path, parent, macros, changeable_macros), at line 0
ReqFile(path, macros, c_macros) ==
  [path |-> path, macros |-> macros, c_macros |-> c_macros, line_n |-> 0, pvs |-> <<>>]

\* no request file is being read
ReqIdle ==
  /\ req_files = [p \in Paths |-> <<>>]
  /\ req_chain = <<>>
  /\ req_result = [status |-> "idle", pvs |-> <<>>, named |-> {}, loop |-> <<>>]

FnInit == CompareIdle /\ ReqIdle /\ SaveIdle

\* SnapshotReqFile(RootPath, macros=macros, changeable_macros=c_macros).read()
\* is called
ReqCalled(macros, c_macros) ==
  /\ req_chain = <<ReqFile(RootPath, macros, c_macros)>>
  /\ req_result = [status |-> "reading", pvs |-> <<>>, named |-> {}, loop |-> <<>>]

\* the object whose read() is running, and the line "for ... in f" gives next
ReqTop == req_chain[Len(req_chain)]
ReqAtLine == req_chain # <<>> /\ ReqTop.line_n < Len(req_files[ReqTop.path])
ReqLine == req_files[ReqTop.path][ReqTop.line_n + 1]

\* an exception leaves every read() of the chain; named: the macros a
\* MacroError lists; loop: what the message of _check_looping names
ReqRaise(status, named, loop) ==
  /\ req_chain' = <<>>
  /\ req_result' = [status |-> status, pvs |-> <<>>, named |-> named, loop |-> loop]

\* the running read() goes on to its next line, with pvs as its list
ReqGoOn(pvs) ==
  /\ req_chain' = [req_chain EXCEPT ![Len(req_chain)] =
                     [@ EXCEPT !.line_n = @ + 1, !.pvs = pvs]]
  /\ UNCHANGED req_result

\* read(): a comment, "data{", "}" or blank line
ReadSkipLine ==
  /\ ReqAtLine
  /\ ReqLine.kind = "skip"
  /\ ReqGoOn(ReqTop.pvs)
  /\ UNCHANGED <<compare_call, req_files, savevars>>
  /\ UNCHANGED <<regvars, entryvars, updvars, callvars>>

\* read(): a line with a PV name
ReadPvLine ==
  /\ ReqAtLine
  /\ ReqLine.kind = "pv"
  /\ LET pvname == macros_substitution(ReqLine.txt, ReqTop.macros)
         invalid == invalid_macros(pvname, ReqTop.macros, ReqTop.c_macros)
     IN  IF invalid # {}
           THEN ReqRaise("ReqParseError", invalid, <<>>)
           ELSE ReqGoOn(Append(ReqTop.pvs, pvname))
  /\ UNCHANGED <<compare_call, req_files, savevars>>
  /\ UNCHANGED <<regvars, entryvars, updvars, callvars>>

\* _check_looping(path), looking at the i-th object of the chain and then at
\* its ancestors: <<>> for None, else the path and the file it was already
\* called from (0: "already loaded as root request file")
RECURSIVE CheckLoopingFrom(_, _, _)
CheckLoopingFrom(chain, i, path) ==
  IF i = 0 THEN <<>>
  ELSE IF chain[i].path = path
    THEN <<path, IF i > 1 THEN chain[i - 1].path ELSE 0>>
  ELSE CheckLoopingFrom(chain, i - 1, path)

_check_looping_FromParent(chain, path) == CheckLoopingFrom(chain, Len(chain) - 1, path)

_check_looping(chain, path) == CheckLoopingFrom(chain, Len(chain), path)

\* read(): a line "!path" or "!path,<macros argument>"
ReadIncludeLine ==
  /\ ReqAtLine
  /\ ReqLine.kind = "inc"
  /\ LET macro_txt == SubstitutePieces(ReqLine.arg, ReqTop.macros)
         invalid == invalid_macros(MacroTxt(macro_txt), ReqTop.macros, ReqTop.c_macros)
         macros == IF ReqLine.has_arg THEN parse_macros(macro_txt) ELSE <<>>
         msg == _check_looping(req_chain, ReqLine.path)
     IN  IF ReqLine.has_arg /\ ~ReqLine.quoted
           THEN ReqRaise("ReqFileFormatError", {}, <<>>)
         ELSE IF ReqLine.has_arg /\ invalid # {}
           THEN ReqRaise("ReqParseError", invalid, <<>>)
         ELSE IF ReqLine.has_arg /\ ParseMacrosRaises(macro_txt)
           THEN ReqRaise("ReqParseError", {}, <<>>)
         ELSE IF msg # <<>>
           THEN ReqRaise("ReqFileInfLoopError", {}, msg)
         ELSE /\ req_chain' = Append(
                   [req_chain EXCEPT ![Len(req_chain)] = [@ EXCEPT !.line_n = @ + 1]],
                   ReqFile(ReqLine.path, macros, {}))
              /\ UNCHANGED req_result
  /\ UNCHANGED <<compare_call, req_files, savevars>>
  /\ UNCHANGED <<regvars, entryvars, updvars, callvars>>

ReadReturn_Prepend ==
  /\ req_chain # <<>>
  /\ ~ReqAtLine
  /\ IF Len(req_chain) = 1
       THEN /\ req_chain' = <<>>
            /\ req_result' = [status |-> "ok", pvs |-> ReqTop.pvs, named |-> {}, loop |-> <<>>]
       ELSE /\ req_chain' = [SubSeq(req_chain, 1, Len(req_chain) - 1)
                               EXCEPT ![Len(req_chain) - 1] =
                                 [@ EXCEPT !.pvs = ReqTop.pvs \o @]]
            /\ UNCHANGED req_result
  /\ UNCHANGED <<compare_call, req_files, savevars>>
  /\ UNCHANGED <<regvars, entryvars, updvars, callvars>>

\* read(): the file is at its end, "return pvs"; the parent does
\* "pvs += sub_pvs"
ReadReturn ==
  /\ req_chain # <<>>
  /\ ~ReqAtLine
  /\ IF Len(req_chain) = 1
       THEN /\ req_chain' = <<>>
            /\ req_result' = [status |-> "ok", pvs |-> ReqTop.pvs, named |-> {}, loop |-> <<>>]
       ELSE /\ req_chain' = [SubSeq(req_chain, 1, Len(req_chain) - 1)
                               EXCEPT ![Len(req_chain) - 1] =
                                 [@ EXCEPT !.pvs = @ \o ReqTop.pvs]]
            /\ UNCHANGED req_result
  /\ UNCHANGED <<compare_call, req_files, savevars>>
  /\ UNCHANGED <<regvars, entryvars, updvars, callvars>>

\* ------------------------------------------------- _BackgroundWorkers
RegInit ==
  /\ _workers = <<>>
  /\ _count = 0
  /\ _suspend = [w \in Workers |-> FALSE]
  /\ rpc = [t \in Callers |-> "idle"]
  /\ rtmp = [t \in Callers |-> 0]
  /\ ridx = [t \in Callers |-> 0]
  /\ rpre = [t \in Callers |-> 0]
  /\ rinv = [t \in Callers |-> <<>>]
  /\ rheld = [t \in Callers |-> FALSE]

RegIdle == \A t \in Callers : rpc[t] = "idle"

\* register(worker): append unless already there
Register(w) ==
  /\ w \notin Range(_workers)
  /\ _workers' = Append(_workers, w)
  /\ UNCHANGED <<_count, _suspend, rpc, rtmp, ridx, rpre, rinv, rheld>>

\* unregister(worker): index() then del (index() raises on a missing worker)
Unregister(w) ==
  /\ w \in Range(_workers)
  /\ _workers' = DelAt(_workers, IndexOf(_workers, w))
  /\ UNCHANGED <<_count, _suspend, rpc, rtmp, ridx, rpre, rinv, rheld>>

\* a caller enters suspend()
RegSuspendCall(t) ==
  /\ rpc[t] = "idle"
  /\ rpc' = [rpc EXCEPT ![t] = "s_if"]
  /\ rpre' = [rpre EXCEPT ![t] = _count]
  /\ rinv' = [rinv EXCEPT ![t] = <<>>]
  /\ UNCHANGED <<_workers, _count, _suspend, rtmp, ridx, rheld>>

\* "if self._count == 0:" of suspend()
RegSuspendIf(t) ==
  /\ rpc[t] = "s_if"
  /\ rpc' = [rpc EXCEPT ![t] = IF _count = 0 THEN "s_for" ELSE "s_load"]
  /\ ridx' = [ridx EXCEPT ![t] = 1]
  /\ UNCHANGED <<_workers, _count, _suspend, rtmp, rpre, rinv, rheld>>

\* "for w in self._workers: w.suspend()" / "w.resume()": one iteration, or the
\* end of the loop.  The list iterator reads the live list by position.
\* PvUpdater.suspend()/resume() set self._suspend under the updater's lock.
RegFor(t, here, flag, after) ==
  /\ rpc[t] = here
  /\ IF ridx[t] <= Len(_workers)
       THEN /\ _suspend' = [_suspend EXCEPT ![_workers[ridx[t]]] = flag]
            /\ rinv' = [rinv EXCEPT ![t] = Append(@, _workers[ridx[t]])]
            /\ ridx' = [ridx EXCEPT ![t] = @ + 1]
            /\ UNCHANGED rpc
       ELSE /\ rpc' = [rpc EXCEPT ![t] = after]
            /\ ridx' = [ridx EXCEPT ![t] = 0]
            /\ UNCHANGED <<_suspend, rinv>>
  /\ UNCHANGED <<_workers, _count, rtmp, rpre, rheld>>

RegSuspendFor(t) == RegFor(t, "s_for", TRUE, "s_load")

\* "self._count += 1" / "self._count -= 1": the load ...
RegLoad(t, here, next) ==
  /\ rpc[t] = here
  /\ rtmp' = [rtmp EXCEPT ![t] = _count]
  /\ rpc' = [rpc EXCEPT ![t] = next]
  /\ UNCHANGED <<_workers, _count, _suspend, ridx, rpre, rinv, rheld>>

\* ... and the store
RegStore(t, here, delta, next) ==
  /\ rpc[t] = here
  /\ _count' = rtmp[t] + delta
  /\ rtmp' = [rtmp EXCEPT ![t] = 0]
  /\ rpc' = [rpc EXCEPT ![t] = next]
  /\ UNCHANGED <<_workers, _suspend, ridx, rpre, rinv>>

RegSuspendLoad(t) == RegLoad(t, "s_load", "s_store")

RegSuspendStore(t) ==
  /\ RegStore(t, "s_store", 1, "s_ret")
  /\ rheld' = [rheld EXCEPT ![t] = TRUE]

\* a caller enters resume()
RegResumeCall(t) ==
  /\ rpc[t] = "idle"
  /\ rpc' = [rpc EXCEPT ![t] = "r_if"]
  /\ rpre' = [rpre EXCEPT ![t] = _count]
  /\ rinv' = [rinv EXCEPT ![t] = <<>>]
  /\ UNCHANGED <<_workers, _count, _suspend, rtmp, ridx, rheld>>

\* "if self._count > 0:" of resume()
RegResumeIf(t) ==
  /\ rpc[t] = "r_if"
  /\ rpc' = [rpc EXCEPT ![t] = IF _count > 0 THEN "r_load" ELSE "r_ret"]
  /\ rheld' = [rheld EXCEPT ![t] = FALSE]
  /\ UNCHANGED <<_workers, _count, _suspend, rtmp, ridx, rpre, rinv>>

RegResumeLoad(t) == RegLoad(t, "r_load", "r_store")

RegResumeStore(t) ==
  /\ RegStore(t, "r_store", -1, "r_if0")
  /\ UNCHANGED rheld

\* "if self._count == 0:" of resume()
RegResumeIf0_Positive(t) ==
  /\ rpc[t] = "r_if0"
  /\ rpc' = [rpc EXCEPT ![t] = IF _count >= 0 THEN "r_for" ELSE "r_ret"]
  /\ ridx' = [ridx EXCEPT ![t] = 1]
  /\ UNCHANGED <<_workers, _count, _suspend, rtmp, rpre, rinv, rheld>>

RegResumeIf0(t) ==
  /\ rpc[t] = "r_if0"
  /\ rpc' = [rpc EXCEPT ![t] = IF _count = 0 THEN "r_for" ELSE "r_ret"]
  /\ ridx' = [ridx EXCEPT ![t] = 1]
  /\ UNCHANGED <<_workers, _count, _suspend, rtmp, rpre, rinv, rheld>>

RegResumeFor(t) == RegFor(t, "r_for", FALSE, "r_ret")

\* the call returns to its caller
RegReturn(t) ==
  /\ rpc[t] \in {"s_ret", "r_ret"}
  /\ rpc' = [rpc EXCEPT ![t] = "idle"]
  /\ ridx' = [ridx EXCEPT ![t] = 0]
  /\ rpre' = [rpre EXCEPT ![t] = 0]
  /\ rinv' = [rinv EXCEPT ![t] = <<>>]
  /\ UNCHANGED <<_workers, _count, _suspend, rtmp, rheld>>

\* the steps inside a call
RegStep(t) ==
  \/ RegSuspendIf(t)
  \/ RegSuspendFor(t)
  \/ RegSuspendLoad(t)
  \/ RegSuspendStore(t)
  \/ RegResumeIf(t)
  \/ RegResumeLoad(t)
  \/ RegResumeStore(t)
  \/ RegResumeIf0(t)
  \/ RegResumeFor(t)
  \/ RegReturn(t)

\* ------------------------------------------------------------ SnapshotPv
\* SnapshotPv.__init__, and no call in progress
EntryInit ==
  /\ is_array = [p \in PVs |-> FALSE]
  /\ _last_value = [p \in PVs |-> None]
  /\ _initialized = [p \in PVs |-> FALSE]
  /\ _pvget_lock = [p \in PVs |-> {}]
  /\ _pvget_completer = [p \in PVs |-> FALSE]

CallInit ==
  /\ cpc = [t \in Callers |-> "idle"]
  /\ cop = [t \in Callers |-> "none"]
  /\ cpv = [t \in Callers |-> Entry]
  /\ carg = [t \in Callers |-> None]
  /\ cval = [t \in Callers |-> None]
  /\ ccache = [t \in Callers |-> None]
  /\ cconn = [t \in Callers |-> "unasked"]
  /\ cacc = [t \in Callers |-> "unasked"]
  /\ cstat = [t \in Callers |-> <<>>]
  /\ cput = [t \in Callers |-> "none"]
  /\ cret = [t \in Callers |-> None]
  /\ nfetch = [p \in PVs |-> 0]

CallersIdle == \A t \in Callers : cpc[t] = "idle"

\* _internal_cnct_callback: is_array follows the channel's element count
InternalCnctCallback(p) ==
  /\ \E element_count \in 1..2 :
       is_array' = [is_array EXCEPT ![p] = (element_count > 1)]
  /\ is_array'[p] # is_array[p]
  /\ UNCHANGED <<_last_value, _initialized, _pvget_lock, _pvget_completer>>
  /\ UNCHANGED <<regvars, fnvars, updvars, callvars>>

\* a thread reads the property pv.value
ValueCall(t, p) ==
  /\ cpc[t] = "idle"
  /\ cpc' = [cpc EXCEPT ![t] = "v_read"]
  /\ cop' = [cop EXCEPT ![t] = "value"]
  /\ cpv' = [cpv EXCEPT ![t] = p]
  /\ UNCHANGED <<carg, cval, ccache, cconn, cacc, cstat, cput, cret, nfetch>>
  /\ UNCHANGED <<regvars, fnvars, entryvars, updvars>>

\* a thread calls pv.save_pv()
SaveCall(t, p) ==
  /\ cpc[t] = "idle"
  /\ cpc' = [cpc EXCEPT ![t] = "s_check"]
  /\ cop' = [cop EXCEPT ![t] = "save"]
  /\ cpv' = [cpv EXCEPT ![t] = p]
  /\ UNCHANGED <<carg, cval, ccache, cconn, cacc, cstat, cput, cret, nfetch>>
  /\ UNCHANGED <<regvars, fnvars, entryvars, updvars>>

\* a thread calls pv.restore_pv(value, callback)
RestoreCall(t, p, value) ==
  /\ cpc[t] = "idle"
  /\ cpc' = [cpc EXCEPT ![t] = "r_check"]
  /\ cop' = [cop EXCEPT ![t] = "restore"]
  /\ cpv' = [cpv EXCEPT ![t] = p]
  /\ carg' = [carg EXCEPT ![t] = value]
  /\ UNCHANGED <<cval, ccache, cconn, cacc, cstat, cput, cret, nfetch>>
  /\ UNCHANGED <<regvars, fnvars, entryvars, updvars>>

\* where the value property returns to
AfterValue(t) == IF cop[t] = "restore" THEN "r_cmp" ELSE "ret"

\* value: "value = self._last_value"
ValueRead(t) ==
  /\ cpc[t] = "v_read"
  /\ cval' = [cval EXCEPT ![t] = _last_value[cpv[t]]]
  /\ ccache' = [ccache EXCEPT ![t] = _last_value[cpv[t]]]
  /\ cpc' = [cpc EXCEPT ![t] = "v_if"]
  /\ UNCHANGED <<cop, cpv, carg, cconn, cacc, cstat, cput, cret, nfetch>>
  /\ UNCHANGED <<regvars, fnvars, entryvars, updvars>>

\* value: "if not self._initialized:" (else "return value")
ValueIf(t) ==
  /\ cpc[t] = "v_if"
  /\ cpc' = [cpc EXCEPT ![t] =
       IF ~_initialized[cpv[t]] THEN "v_set" ELSE AfterValue(t)]
  /\ UNCHANGED <<cop, cpv, carg, cval, ccache, cconn, cacc, cstat, cput, cret, nfetch>>
  /\ UNCHANGED <<regvars, fnvars, entryvars, updvars>>

\* value: "self._initialized = True", then the call of self.get(...)
ValueSet(t) ==
  /\ cpc[t] = "v_set"
  /\ _initialized' = [_initialized EXCEPT ![cpv[t]] = TRUE]
  /\ cpc' = [cpc EXCEPT ![t] = "g_lock"]
  /\ UNCHANGED <<is_array, _last_value, _pvget_lock, _pvget_completer>>
  /\ UNCHANGED <<cop, cpv, carg, cval, ccache, cconn, cacc, cstat, cput, cret, nfetch>>
  /\ UNCHANGED <<regvars, fnvars, updvars>>

\* get(*args): "with self._pvget_lock:" waits for the lock and takes it
GetLock(t) ==
  /\ cpc[t] = "g_lock"
  /\ _pvget_lock[cpv[t]] = {}
  /\ _pvget_lock' = [_pvget_lock EXCEPT ![cpv[t]] = {t}]
  /\ cpc' = [cpc EXCEPT ![t] = "g_get"]
  /\ UNCHANGED <<is_array, _last_value, _initialized, _pvget_completer>>
  /\ UNCHANGED <<cop, cpv, carg, cval, ccache, cconn, cacc, cstat, cput, cret, nfetch>>
  /\ UNCHANGED <<regvars, fnvars, updvars>>

\* where get(*args) returns to
AfterGet(t) == IF cop[t] = "save" THEN "s_norm" ELSE "v_store"

\* get(*args), holding the lock: a pending completer is run first
\* (_get_complete(pv, wait=True): it stores the value it gets, or returns None
\* and get() gives up); then PV.get() fetches; the lock is released.
GetFetch(t) ==
  /\ cpc[t] = "g_get"
  /\ LET p == cpv[t] IN
     \E completed \in GetResults, fetched \in GetResults :
       /\ _pvget_completer[p] \/ IsNone(completed)
       /\ IF _pvget_completer[p] /\ IsNone(completed)
            THEN /\ cval' = [cval EXCEPT ![t] = None]
                 /\ IsNone(fetched)
                 /\ UNCHANGED <<_last_value, _pvget_completer>>
            ELSE /\ cval' = [cval EXCEPT ![t] = fetched]
                 /\ IF _pvget_completer[p]
                      THEN /\ _pvget_completer' = [_pvget_completer EXCEPT ![p] = FALSE]
                           /\ _last_value' = [_last_value EXCEPT ![p] = completed]
                      ELSE UNCHANGED <<_last_value, _pvget_completer>>
       /\ _pvget_lock' = [_pvget_lock EXCEPT ![p] = @ \ {t}]
       /\ nfetch' = [nfetch EXCEPT ![p] =
            IF cop[t] # "save" /\ @ < MaxFetch THEN @ + 1 ELSE @]
  /\ cpc' = [cpc EXCEPT ![t] = AfterGet(t)]
  /\ UNCHANGED <<is_array, _initialized>>
  /\ UNCHANGED <<cop, cpv, carg, ccache, cconn, cacc, cstat, cput, cret>>
  /\ UNCHANGED <<regvars, fnvars, updvars>>

\* value: "self._last_value = value", "return value"
ValueStore(t) ==
  /\ cpc[t] = "v_store"
  /\ _last_value' = [_last_value EXCEPT ![cpv[t]] = cval[t]]
  /\ cpc' = [cpc EXCEPT ![t] = AfterValue(t)]
  /\ UNCHANGED <<is_array, _initialized, _pvget_lock, _pvget_completer>>
  /\ UNCHANGED <<cop, cpv, carg, cval, ccache, cconn, cacc, cstat, cput, cret, nfetch>>
  /\ UNCHANGED <<regvars, fnvars, updvars>>

\* "if self.connected:" and, only inside it, "if self.<access>:" ; the
\* answers are the channel's, drawn here.  TRUE when both say yes.
AccessCheck_AccessFirst(t, connected, access) ==
  /\ cacc' = [cacc EXCEPT ![t] = IF access THEN "granted" ELSE "denied"]
  /\ cconn' = [cconn EXCEPT ![t] =
       IF ~access THEN "unasked" ELSE IF connected THEN "up" ELSE "down"]

AccessCheck(t, connected, access) ==
  /\ cconn' = [cconn EXCEPT ![t] = IF connected THEN "up" ELSE "down"]
  /\ cacc' = [cacc EXCEPT ![t] =
       IF ~connected THEN "unasked" ELSE IF access THEN "granted" ELSE "denied"]

\* save_pv: the connection and read access tests
SaveCheck_FetchAnyway(t) ==
  /\ cpc[t] = "s_check"
  /\ \E connected \in BOOLEAN, read_access \in BOOLEAN :
       /\ AccessCheck(t, connected, read_access)
       /\ cpc' = [cpc EXCEPT ![t] = "g_lock"]
       /\ UNCHANGED <<cstat, cret>>
  /\ UNCHANGED <<cop, cpv, carg, cval, ccache, cput, nfetch>>
  /\ UNCHANGED <<regvars, fnvars, entryvars, updvars>>

SaveCheck(t) ==
  /\ cpc[t] = "s_check"
  /\ \E connected \in BOOLEAN, read_access \in BOOLEAN :
       /\ AccessCheck(t, connected, read_access)
       /\ IF connected /\ read_access
            THEN /\ cpc' = [cpc EXCEPT ![t] = "g_lock"]
                 /\ UNCHANGED <<cstat, cret>>
            ELSE /\ cpc' = [cpc EXCEPT ![t] = "ret"]
                 /\ cret' = [cret EXCEPT ![t] = None]
                 /\ cstat' = [cstat EXCEPT ![t] = <<"access_err">>]
  /\ UNCHANGED <<cop, cpv, carg, cval, ccache, cput, nfetch>>
  /\ UNCHANGED <<regvars, fnvars, entryvars, updvars>>

\* save_pv: the array treatment of saved_value and the return
SaveNorm(t) ==
  /\ cpc[t] = "s_norm"
  /\ LET saved_value == SaveNormalize(cval[t], is_array[cpv[t]]) IN
       /\ cret' = [cret EXCEPT ![t] = saved_value]
       /\ cstat' = [cstat EXCEPT ![t] =
            IF IsNone(saved_value) THEN <<"no_value">> ELSE <<"ok">>]
  /\ cpc' = [cpc EXCEPT ![t] = "ret"]
  /\ UNCHANGED <<cop, cpv, carg, cval, ccache, cconn, cacc, cput, nfetch>>
  /\ UNCHANGED <<regvars, fnvars, entryvars, updvars>>

\* restore_pv: the connection and write access tests, and "if value is None"
RestoreCheck(t) ==
  /\ cpc[t] = "r_check"
  /\ \E connected \in BOOLEAN, write_access \in BOOLEAN :
       /\ AccessCheck(t, connected, write_access)
       /\ IF ~(connected /\ write_access)
            THEN /\ cpc' = [cpc EXCEPT ![t] = "ret"]
                 /\ cstat' = [cstat EXCEPT ![t] = <<"access_err">>]
            ELSE IF IsNone(carg[t])
            THEN /\ cpc' = [cpc EXCEPT ![t] = "ret"]
                 /\ cstat' = [cstat EXCEPT ![t] = <<"no_value">>]
            ELSE /\ cpc' = [cpc EXCEPT ![t] = "v_read"]
                 /\ UNCHANGED cstat
  /\ UNCHANGED <<cop, cpv, carg, cval, ccache, cput, cret, nfetch>>
  /\ UNCHANGED <<regvars, fnvars, entryvars, updvars>>

\* restore_pv: "elif not self.compare_to_curr(value):" with the value the
\* value property returned; put() either raises TypeError or is issued.
RestoreCompare(t) ==
  /\ cpc[t] = "r_cmp"
  /\ cpc' = [cpc EXCEPT ![t] = "ret"]
  /\ IF CompareRaises(carg[t], cval[t], is_array[cpv[t]], 0)
       THEN UNCHANGED <<cstat, cput>>
     ELSE IF Compare(carg[t], cval[t], is_array[cpv[t]], 0)
       THEN /\ cstat' = [cstat EXCEPT ![t] = <<"equal">>]
            /\ UNCHANGED cput
     ELSE \E type_error \in BOOLEAN :
            IF type_error
              THEN /\ cstat' = [cstat EXCEPT ![t] = <<"type_err">>]
                   /\ UNCHANGED cput
              ELSE /\ cput' = [cput EXCEPT ![t] = "pending"]
                   /\ UNCHANGED cstat
  /\ UNCHANGED <<cop, cpv, carg, cval, ccache, cconn, cacc, cret, nfetch>>
  /\ UNCHANGED <<regvars, fnvars, entryvars, updvars>>

\* the put() completes and the library calls callback(status=PvStatus.ok)
PutDone(t) ==
  /\ cput[t] = "pending"
  /\ cput' = [cput EXCEPT ![t] = "done"]
  /\ cstat' = [cstat EXCEPT ![t] = Append(@, "ok")]
  /\ UNCHANGED <<cpc, cop, cpv, carg, cval, ccache, cconn, cacc, cret, nfetch>>
  /\ UNCHANGED <<regvars, fnvars, entryvars, updvars>>

\* the call is over (and its put, if any, has been answered)
CallReturn(t) ==
  /\ cpc[t] = "ret"
  /\ cput[t] # "pending"
  /\ cpc' = [cpc EXCEPT ![t] = "idle"]
  /\ cop' = [cop EXCEPT ![t] = "none"]
  /\ cpv' = [cpv EXCEPT ![t] = Entry]
  /\ carg' = [carg EXCEPT ![t] = None]
  /\ cval' = [cval EXCEPT ![t] = None]
  /\ ccache' = [ccache EXCEPT ![t] = None]
  /\ cconn' = [cconn EXCEPT ![t] = "unasked"]
  /\ cacc' = [cacc EXCEPT ![t] = "unasked"]
  /\ cstat' = [cstat EXCEPT ![t] = <<>>]
  /\ cput' = [cput EXCEPT ![t] = "none"]
  /\ cret' = [cret EXCEPT ![t] = None]
  /\ UNCHANGED nfetch
  /\ UNCHANGED <<regvars, fnvars, entryvars, updvars>>

\* the steps inside a read of pv.value
ValueStep(t) ==
  \/ ValueRead(t)
  \/ ValueIf(t)
  \/ ValueSet(t)
  \/ GetLock(t)
  \/ GetFetch(t)
  \/ ValueStore(t)
  \/ CallReturn(t)

\* the steps inside a call
CallStep(t) ==
  \/ ValueStep(t)
  \/ SaveCheck(t)
  \/ SaveNorm(t)
  \/ RestoreCheck(t)
  \/ RestoreCompare(t)
  \/ PutDone(t)

\* ------------------------------------------------------------- PvUpdater
\* PvUpdater.__init__ (the thread is created, not started)
\* What a step of the cycle met: how the fetch of the extended metadata
\* went ("skipped": the entry was initialized, "disconnected", "timeout",
\* "ok") and how the get went (_get_start: "issued", "disconnected",
\* "exception"; _get_complete: "value", "timeout", "disconnected",
\* "exception").
Obs(step, ctrl, get) == [step |-> step, ctrl |-> ctrl, get |-> get]
NoObs == Obs("none", "none", "none")

UpdInit ==
  /\ uobs = NoObs
  /\ uwait = 0
  /\ _pvs = <<>>
  /\ _quit = FALSE
  /\ _lock = FALSE
  /\ upc = "new"
  /\ uidx = 0
  /\ vals = <<>>
  /\ spc = "none"

\* suspend() / resume(): "with self._lock: self._suspend = ..."
UpdaterSuspend(flag) ==
  /\ ~_lock
  /\ _suspend[TheUpdater] # flag
  /\ _suspend' = [_suspend EXCEPT ![TheUpdater] = flag]
  /\ UNCHANGED <<regonly, fnvars, entryvars, updvars, callvars>>

\* the lists set_pvs is called with: entries in any order, none twice
PvLists ==
  {pvs \in UNION {[1..n -> PVs] : n \in 0..NumPvs} :
     \A i, j \in 1..Len(pvs) : i # j => pvs[i] # pvs[j]}

\* set_pvs(pvs): "with self._lock: self._pvs = list(pvs)"
SetPvs(pvs) ==
  /\ ~_lock
  /\ _pvs # pvs
  /\ _pvs' = pvs
  /\ UNCHANGED <<_quit, _lock, upc, uidx, vals, spc, uobs, uwait>>
  /\ UNCHANGED <<regvars, fnvars, entryvars, callvars>>

\* start()
UpdaterStart ==
  /\ upc = "new"
  /\ upc' = "while"
  /\ UNCHANGED <<_pvs, _quit, _lock, uidx, vals, spc, uobs, uwait>>
  /\ UNCHANGED <<regvars, fnvars, entryvars, callvars>>

\* stop(): "self._quit = True"
StopCall ==
  /\ spc = "none"
  /\ _quit' = TRUE
  /\ spc' = "join"
  /\ UNCHANGED <<_pvs, _lock, upc, uidx, vals, uobs, uwait>>
  /\ UNCHANGED <<regvars, fnvars, entryvars, callvars>>

\* stop(): "if self._thread.is_alive(): self._thread.join()" and the return
StopReturn_NoJoin ==
  /\ spc = "join"
  /\ spc' = "returned"
  /\ UNCHANGED <<_pvs, _quit, _lock, upc, uidx, vals, uobs, uwait>>
  /\ UNCHANGED <<regvars, fnvars, entryvars, callvars>>

StopReturn ==
  /\ spc = "join"
  /\ upc \in {"new", "dead"}
  /\ spc' = "returned"
  /\ UNCHANGED <<_pvs, _quit, _lock, upc, uidx, vals, uobs, uwait>>
  /\ UNCHANGED <<regvars, fnvars, entryvars, callvars>>

\* _run: "while not self._quit:"
RunWhile ==
  /\ upc = "while"
  /\ upc' = IF _quit THEN "dead" ELSE "sleep"
  /\ UNCHANGED <<_pvs, _quit, _lock, uidx, vals, spc, uobs, uwait>>
  /\ UNCHANGED <<regvars, fnvars, entryvars, callvars>>

\* _run: a sleep quantum ends, "if self._quit: return"
RunSleepQuit ==
  /\ upc = "sleep"
  /\ _quit
  /\ upc' = "dead"
  /\ UNCHANGED <<_pvs, _quit, _lock, uidx, vals, spc, uobs, uwait>>
  /\ UNCHANGED <<regvars, fnvars, entryvars, callvars>>

\* _run: the period is over; "with self._lock: if self._suspend: continue"
RunBegin_IgnoreSuspend ==
  /\ upc = "sleep"
  /\ upc' = "acquire"
  /\ _lock' = TRUE
  /\ uidx' = 1
  /\ UNCHANGED <<_pvs, _quit, vals, spc, uobs, uwait>>
  /\ UNCHANGED <<regvars, fnvars, entryvars, callvars>>

RunBegin ==
  /\ upc = "sleep"
  /\ IF _suspend[TheUpdater]
       THEN /\ upc' = "while"
            /\ UNCHANGED <<_lock, uidx>>
       ELSE /\ upc' = "acquire"
            /\ _lock' = TRUE
            /\ uidx' = 1
  /\ UNCHANGED <<_pvs, _quit, vals, spc, uobs, uwait>>
  /\ UNCHANGED <<regvars, fnvars, entryvars, callvars>>

\* _run: "for pv in self._pvs: pv._pvget_lock.acquire()", or the end of the
\* loop
RunAcquire ==
  /\ upc = "acquire"
  /\ IF uidx <= Len(_pvs)
       THEN /\ _pvget_lock[_pvs[uidx]] = {}
            /\ _pvget_lock' = [_pvget_lock EXCEPT ![_pvs[uidx]] = {UpdaterThread}]
            /\ upc' = "start"
            /\ UNCHANGED uidx
       ELSE /\ upc' = "complete"
            /\ uidx' = 1
            /\ UNCHANGED _pvget_lock
  /\ uobs' = NoObs
  /\ UNCHANGED <<is_array, _last_value, _initialized, _pvget_completer>>
  /\ UNCHANGED <<_pvs, _quit, _lock, vals, spc, uwait>>
  /\ UNCHANGED <<regvars, fnvars, callvars>>

\* how the fetch of the extended metadata can go for an entry, and how
\* _get_start can
CtrlOutcomes(initialized) ==
  IF initialized THEN {"skipped"} ELSE {"disconnected", "timeout", "ok"}
StartOutcomes == {"disconnected", "exception", "issued"}

\* _run: the rest of the loop body, the pv initialized whatever
\* get_ctrlvars() returns
RunGetStart_InitOnTimeout ==
  /\ upc = "start"
  /\ LET pv == _pvs[uidx] IN
     \E ctrl \in CtrlOutcomes(_initialized[pv]), get \in StartOutcomes :
       /\ _initialized' = [_initialized EXCEPT ![pv] = @ \/ ctrl \in {"ok", "timeout"}]
       /\ _pvget_completer' = [_pvget_completer EXCEPT ![pv] = @ \/ get = "issued"]
       /\ uobs' = Obs("start", ctrl, get)
  /\ uidx' = uidx + 1
  /\ upc' = "acquire"
  /\ UNCHANGED <<is_array, _last_value, _pvget_lock>>
  /\ UNCHANGED <<_pvs, _quit, _lock, vals, spc, uwait>>
  /\ UNCHANGED <<regvars, fnvars, callvars>>

\* _run: the rest of the loop body: for an uninitialized pv that is
\* connected get_ctrlvars() is called, and the pv is initialized when it
\* answers; then _get_start(pv): when the pv is connected the get is issued
\* and the completer set, unless ca raises ChannelAccessException.
RunGetStart ==
  /\ upc = "start"
  /\ LET pv == _pvs[uidx] IN
     \E ctrl \in CtrlOutcomes(_initialized[pv]), get \in StartOutcomes :
       /\ _initialized' = [_initialized EXCEPT ![pv] = @ \/ ctrl = "ok"]
       /\ _pvget_completer' = [_pvget_completer EXCEPT ![pv] = @ \/ get = "issued"]
       /\ uobs' = Obs("start", ctrl, get)
  /\ uidx' = uidx + 1
  /\ upc' = "acquire"
  /\ UNCHANGED <<is_array, _last_value, _pvget_lock>>
  /\ UNCHANGED <<_pvs, _quit, _lock, vals, spc, uwait>>
  /\ UNCHANGED <<regvars, fnvars, callvars>>

\* how _get_complete(pv) can go: the pv is disconnected; the value of a get
\* in flight arrives within the period; none arrives within the period; ca
\* raises ChannelAccessException
CompleteOutcomes == {"disconnected", "value", "timeout", "exception"}

\* _run: "vals = [self._get_complete(pv) for pv in self._pvs]", one pv: the
\* value of a get in flight arrives within the period, or None
RunGetComplete_CompletionOrder ==
  /\ upc = "complete"
  /\ IF uidx <= Len(_pvs)
       THEN LET pv == _pvs[uidx] IN
            \E md \in GetResults, get \in CompleteOutcomes :
              /\ get = "value" <=> ~IsNone(md)
              /\ get = "value" => _pvget_completer[pv]
              /\ uobs' = Obs("complete", "none", get)
              /\ uwait' = (IF get = "timeout" THEN uwait + 1 ELSE uwait)
              /\ IF IsNone(md)
                   THEN UNCHANGED <<_pvget_completer, _last_value>>
                   ELSE /\ _pvget_completer' = [_pvget_completer EXCEPT ![pv] = FALSE]
                        /\ _last_value' = [_last_value EXCEPT ![pv] = md]
              /\ vals' = (IF IsNone(md) THEN Append(vals, md) ELSE <<md>> \o vals)
              /\ uidx' = uidx + 1
              /\ UNCHANGED upc
       ELSE /\ upc' = "release"
            /\ uidx' = 0
            /\ uobs' = NoObs
            /\ UNCHANGED <<_pvget_completer, _last_value, vals, uwait>>
  /\ UNCHANGED <<is_array, _initialized, _pvget_lock>>
  /\ UNCHANGED <<_pvs, _quit, _lock, spc>>
  /\ UNCHANGED <<regvars, fnvars, callvars>>

RunGetComplete_GiveUpOnTimeout ==
  /\ upc = "complete"
  /\ IF uidx <= Len(_pvs)
       THEN LET pv == _pvs[uidx] IN
            \E md \in GetResults, get \in CompleteOutcomes :
              /\ get = "value" <=> ~IsNone(md)
              /\ get = "value" => _pvget_completer[pv]
              /\ uobs' = Obs("complete", "none", get)
              /\ uwait' = (IF get = "timeout" THEN uwait + 1 ELSE uwait)
              /\ IF IsNone(md)
                   THEN UNCHANGED <<_pvget_completer, _last_value>>
                   ELSE /\ _pvget_completer' = [_pvget_completer EXCEPT ![pv] = FALSE]
                        /\ _last_value' = [_last_value EXCEPT ![pv] = md]
              /\ vals' = Append(vals, md)
              /\ uidx' = uidx + 1
              /\ upc' = (IF IsNone(md) THEN "release" ELSE upc)
       ELSE /\ upc' = "release"
            /\ uidx' = 0
            /\ uobs' = NoObs
            /\ UNCHANGED <<_pvget_completer, _last_value, vals, uwait>>
  /\ UNCHANGED <<is_array, _initialized, _pvget_lock>>
  /\ UNCHANGED <<_pvs, _quit, _lock, spc>>
  /\ UNCHANGED <<regvars, fnvars, callvars>>

RunGetComplete_ClearOnTimeout ==
  /\ upc = "complete"
  /\ IF uidx <= Len(_pvs)
       THEN LET pv == _pvs[uidx] IN
            \E md \in GetResults, get \in CompleteOutcomes :
              /\ get = "value" <=> ~IsNone(md)
              /\ get = "value" => _pvget_completer[pv]
              /\ uobs' = Obs("complete", "none", get)
              /\ uwait' = (IF get = "timeout" THEN uwait + 1 ELSE uwait)
              /\ IF IsNone(md)
                   THEN /\ _pvget_completer' = [_pvget_completer EXCEPT ![pv] = FALSE]
                        /\ UNCHANGED _last_value
                   ELSE /\ _pvget_completer' = [_pvget_completer EXCEPT ![pv] = FALSE]
                        /\ _last_value' = [_last_value EXCEPT ![pv] = md]
              /\ vals' = Append(vals, md)
              /\ uidx' = uidx + 1
              /\ UNCHANGED upc
       ELSE /\ upc' = "release"
            /\ uidx' = 0
            /\ uobs' = NoObs
            /\ UNCHANGED <<_pvget_completer, _last_value, vals, uwait>>
  /\ UNCHANGED <<is_array, _initialized, _pvget_lock>>
  /\ UNCHANGED <<_pvs, _quit, _lock, spc>>
  /\ UNCHANGED <<regvars, fnvars, callvars>>

RunGetComplete ==
  /\ upc = "complete"
  /\ IF uidx <= Len(_pvs)
       THEN LET pv == _pvs[uidx] IN
            \E md \in GetResults, get \in CompleteOutcomes :
              /\ get = "value" <=> ~IsNone(md)
              /\ get = "value" => _pvget_completer[pv]
              /\ uobs' = Obs("complete", "none", get)
              /\ uwait' = (IF get = "timeout" THEN uwait + 1 ELSE uwait)
              /\ IF IsNone(md)
                   THEN UNCHANGED <<_pvget_completer, _last_value>>
                   ELSE /\ _pvget_completer' = [_pvget_completer EXCEPT ![pv] = FALSE]
                        /\ _last_value' = [_last_value EXCEPT ![pv] = md]
              /\ vals' = Append(vals, md)
              /\ uidx' = uidx + 1
              /\ UNCHANGED upc
       ELSE /\ upc' = "release"
            /\ uidx' = 0
            /\ uobs' = NoObs
            /\ UNCHANGED <<_pvget_completer, _last_value, vals, uwait>>
  /\ UNCHANGED <<is_array, _initialized, _pvget_lock>>
  /\ UNCHANGED <<_pvs, _quit, _lock, spc>>
  /\ UNCHANGED <<regvars, fnvars, callvars>>

\* _run: "for pv in self._pvs: pv._pvget_lock.release()" and the end of
\* "with self._lock:"
RunRelease ==
  /\ upc = "release"
  /\ _pvget_lock' = [p \in PVs |->
       IF p \in Range(_pvs) THEN _pvget_lock[p] \ {UpdaterThread} ELSE _pvget_lock[p]]
  /\ _lock' = FALSE
  /\ upc' = "callback"
  /\ uwait' = 0
  /\ UNCHANGED <<is_array, _last_value, _initialized, _pvget_completer>>
  /\ UNCHANGED <<_pvs, _quit, uidx, vals, spc, uobs>>
  /\ UNCHANGED <<regvars, fnvars, callvars>>

\* _run: "self._callback(vals)"
RunCallback ==
  /\ upc = "callback"
  /\ vals' = <<>>
  /\ upc' = "while"
  /\ UNCHANGED <<_pvs, _quit, _lock, uidx, spc, uobs, uwait>>
  /\ UNCHANGED <<regvars, fnvars, entryvars, callvars>>

\* the steps of the thread of _run
RunStep ==
  \/ RunWhile
  \/ RunSleepQuit
  \/ RunBegin
  \/ RunAcquire
  \/ RunGetStart
  \/ RunGetComplete
  \/ RunRelease
  \/ RunCallback

\* --------------------------------------------------------- specifications
Init == RegInit /\ EntryInit /\ UpdInit /\ CallInit /\ FnInit

\* One call of SnapshotPv.compare.
CompareStart ==
  /\ RegInit /\ EntryInit /\ UpdInit /\ CallInit
  /\ CompareInit /\ ReqIdle /\ SaveIdle

SpecCompare == CompareStart /\ [][CompareReturn]_vars

\* The registry: calls made one after another, in any order, by any thread.
RegSeqNext ==
  \/ \E w \in Workers : RegIdle /\ Register(w) /\ UNCHANGED nonreg
  \/ \E w \in Workers : RegIdle /\ Unregister(w) /\ UNCHANGED nonreg
  \/ \E t \in Callers : RegIdle /\ _count < MaxCount /\ RegSuspendCall(t) /\ UNCHANGED nonreg
  \/ \E t \in Callers : RegIdle /\ RegResumeCall(t) /\ UNCHANGED nonreg
  \/ \E t \in Callers : RegStep(t) /\ UNCHANGED nonreg

SpecRegSeq == Init /\ [][RegSeqNext]_vars

\* The registry: calls made concurrently; each caller pairs a suspend() with a
\* later resume().
RegNext ==
  \/ \E w \in Workers : Register(w) /\ UNCHANGED nonreg
  \/ \E w \in Workers : Unregister(w) /\ UNCHANGED nonreg
  \/ \E t \in Callers : ~rheld[t] /\ _count < MaxCount /\ RegSuspendCall(t) /\ UNCHANGED nonreg
  \/ \E t \in Callers : rheld[t] /\ _count > -MaxCount /\ RegResumeCall(t) /\ UNCHANGED nonreg
  \/ \E t \in Callers : RegStep(t) /\ UNCHANGED nonreg

SpecReg == Init /\ [][RegNext]_vars

\* One entry, polled by the updater thread, and used by callers one call at a
\* time.
Next ==
  \/ InternalCnctCallback(Entry)
  \/ \E t \in Callers : CallersIdle /\ ValueCall(t, Entry)
  \/ \E t \in Callers : CallersIdle /\ SaveCall(t, Entry)
  \/ \E t \in Callers, value \in RestoreArgs : CallersIdle /\ RestoreCall(t, Entry, value)
  \/ \E t \in Callers : CallStep(t)
  \/ \E flag \in BOOLEAN : UpdaterSuspend(flag)
  \/ SetPvs(<<Entry>>)
  \/ UpdaterStart
  \/ StopCall
  \/ StopReturn
  \/ RunStep

Spec == Init /\ [][Next]_vars

\* One entry, polled by the updater thread, whose value property is read by
\* several threads at once.
ValueNext ==
  \/ \E t \in Callers : ValueCall(t, Entry)
  \/ \E t \in Callers : ValueStep(t)
  \/ SetPvs(<<Entry>>)
  \/ UpdaterStart
  \/ StopCall
  \/ StopReturn
  \/ RunStep

SpecValue == Init /\ [][ValueNext]_vars

\* the steps of the thread of _run while stop() is not called
CycleRun ==
  \/ RunWhile
  \/ RunBegin
  \/ RunAcquire
  \/ RunGetStart
  \/ RunGetComplete
  \/ RunRelease
  \/ RunCallback

\* Several entries, in any order, polled by the updater thread; set_pvs is
\* called before start() or while the thread sleeps between two cycles.
CycleNext ==
  \/ \E pvs \in PvLists : upc \in {"new", "sleep"} /\ SetPvs(pvs)
  \/ UpdaterStart
  \/ CycleRun

SpecCycle == Init /\ [][CycleNext]_vars

\* Entries of which one is slow: a get of SlowPv never completes (its
\* get_complete times out each time), a get of any other entry is issued (the
\* entry is connected) and completes within the period.
SlowPv == Entry

FastStarts ==
  (upc = "start" /\ _pvs[uidx] # SlowPv) => _pvget_completer'[_pvs[uidx]]

SlowNeverCompletes ==
  (upc = "complete" /\ uidx <= Len(_pvs))
    => (IsNone(vals'[uidx]) <=> _pvs[uidx] = SlowPv)

SlowRun ==
  \/ RunWhile
  \/ RunSleepQuit
  \/ RunBegin
  \/ RunAcquire
  \/ RunGetStart /\ FastStarts
  \/ RunGetComplete /\ SlowNeverCompletes
  \/ RunRelease
  \/ RunCallback

SlowNext ==
  \/ \E pvs \in PvLists : upc \in {"new", "sleep"} /\ SetPvs(pvs)
  \/ \E flag \in BOOLEAN : UpdaterSuspend(flag)
  \/ UpdaterStart
  \/ StopCall
  \/ StopReturn
  \/ SlowRun

\* Entries polled by the updater thread, set_pvs being called with any list
\* of entries, an entry possibly several times in it.
AnyPvLists == UNION {[1..n -> PVs] : n \in 0..NumPvs}

AnyListNext ==
  \/ \E pvs \in AnyPvLists : upc \in {"new", "sleep"} /\ SetPvs(pvs)
  \/ UpdaterStart
  \/ CycleRun

SpecAnyList == Init /\ [][AnyListNext]_vars /\ WF_vars(CycleRun)

\* the thread of _run, once started, is scheduled again and again
SpecSlow == Init /\ [][SlowNext]_vars /\ WF_vars(SlowRun)

\* The include graph of the request files: the files the include lines of a
\* file name, the files reached from a set of files, and whether a file that
\* the root reaches includes itself, directly or through others.
IncludedBy(p) ==
  {req_files[p][i].path : i \in {j \in 1..Len(req_files[p]) : req_files[p][j].kind = "inc"}}

RECURSIVE ReachedFrom(_)
ReachedFrom(S) ==
  LET T == S \cup UNION {IncludedBy(p) : p \in S}
  IN  IF T = S THEN S ELSE ReachedFrom(T)

RootReachesLoop ==
  \E p \in ReachedFrom({RootPath}) : p \in ReachedFrom(IncludedBy(p))

BaseInit == RegInit /\ EntryInit /\ UpdInit /\ CallInit

\* Request files made of include lines only, with any include graph, read
\* from the root without macros.
IncludeLines == {IncludeLine(path, FALSE, FALSE, <<>>) : path \in Paths}

LoopInit ==
  /\ BaseInit /\ CompareIdle /\ SaveIdle
  /\ req_files \in [Paths -> UNION {[1..n -> IncludeLines] : n \in 0..MaxLines}]
  /\ ReqCalled(<<>>, {})

LoopNext ==
  \/ ReadIncludeLine
  \/ ReadReturn

\* read() runs on until it returns or raises
SpecLoop == LoopInit /\ [][LoopNext]_vars /\ WF_vars(LoopNext)

\* Request files whose include lines name the next file, read from the root.
\* The lines a PV name can be written on, and the macros arguments an include
\* line can carry.
PvLines ==
  {PvNameLine(<<Lit("pv")>>)} \cup {PvNameLine(<<Lit("pv"), Mac(key)>>) : key \in MacroNames}

\* "X=1", "X=$(Y)", "Y=$(Y)" and a piece without "="
MacroArgs ==
  { <<Piece("X", <<Lit("1")>>, TRUE)>>,
    <<Piece("X", <<Mac("Y")>>, TRUE)>>,
    <<Piece("Y", <<Mac("Y")>>, TRUE)>>,
    <<Piece("", <<Lit("1")>>, FALSE)>> }

\* the include lines that name path: no argument, an unquoted argument, a
\* quoted one
IncludesOf(path, args) ==
  {IncludeLine(path, FALSE, FALSE, <<>>), IncludeLine(path, TRUE, FALSE, <<>>)}
    \cup {IncludeLine(path, TRUE, TRUE, arg) : arg \in args}

\* the files from path p on: up to MaxLines lines each, the include lines
\* of a file naming the next one
RECURSIVE FilesOf(_, _, _)
FilesOf(p, lines, includes) ==
  IF p \notin Paths THEN {<<>>}
  ELSE LET mine == lines \cup {l \in includes : l.path = p + 1 /\ l.path \in Paths}
       IN  {<<file>> \o rest : file \in UNION {[1..n -> mine] : n \in 0..MaxLines},
                               rest \in FilesOf(p + 1, lines, includes)}

\* the macros the root is read with: none, X=1, X=$(Y)
RootMacros ==
  {<<>>, <<Item("X", <<Lit("1")>>)>>, <<Item("X", <<Mac("Y")>>)>>}

ReqInit ==
  /\ BaseInit /\ CompareIdle /\ SaveIdle
  /\ req_files \in FilesOf(RootPath, {SkipLine} \cup PvLines,
                          UNION {IncludesOf(path, MacroArgs) : path \in Paths})
  /\ \E macros \in RootMacros, c_macros \in SUBSET {"Y"} : ReqCalled(macros, c_macros)

ReqNext ==
  \/ ReadSkipLine
  \/ ReadPvLine
  \/ ReadIncludeLine
  \/ ReadReturn

SpecReq == ReqInit /\ [][ReqNext]_vars /\ WF_vars(ReqNext)

\* What the first n lines of the file at path give when it is read with
\* macros: nothing for a skipped line, the substituted name for a PV line,
\* for an include line all that the named file gives with the macros of
\* the line's argument.
RECURSIVE Flatten(_, _, _)
Flatten(path, n, macros) ==
  IF n = 0 THEN <<>>
  ELSE LET line == req_files[path][n]
       IN  Flatten(path, n - 1, macros) \o
           (CASE line.kind = "skip" -> <<>>
              [] line.kind = "pv" -> <<macros_substitution(line.txt, macros)>>
              [] line.kind = "inc" ->
                   Flatten(line.path, Len(req_files[line.path]),
                           parse_macros(SubstitutePieces(line.arg, macros))))

\* Request files that resolve without error: comment lines, lines "pv$(X)"
\* and include lines with the argument "X=1" or "X=2", read with X=0.
FlatArgs ==
  {<<Piece("X", <<Lit("1")>>, TRUE)>>, <<Piece("X", <<Lit("2")>>, TRUE)>>}

FlatInit ==
  /\ BaseInit /\ CompareIdle /\ SaveIdle
  /\ req_files \in FilesOf(RootPath, {SkipLine, PvNameLine(<<Lit("pv"), Mac("X")>>)},
                          {IncludeLine(path, TRUE, TRUE, arg) : path \in Paths, arg \in FlatArgs})
  /\ ReqCalled(<<Item("X", <<Lit("0")>>)>>, {})

SpecFlat == FlatInit /\ [][ReqNext]_vars /\ WF_vars(ReqNext)

\* The PV lines of the save file, those of them whose literal cannot be
\* decoded (in line order), the last line that names a PV, and the errors
\* about values in err.
PvLineNs == {i \in 1..Len(saved_file) : saved_file[i].kind = "pv"}

Undecodable(i) == SaveLineValue(saved_file[i]) = JSONDecodeError

BadLines ==
  SelectSeq([i \in 1..Len(saved_file) |-> i], LAMBDA i : i \in PvLineNs /\ Undecodable(i))

LastOf(name) ==
  CHOOSE i \in PvLineNs :
    /\ saved_file[i].pvname = name
    /\ \A j \in PvLineNs : saved_file[j].pvname = name => j <= i

ValueErrors == SelectSeq(err, LAMBDA e : e.about = "value cannot be decoded")

\* parse_from_save_file on any file of up to MaxSaveLines lines
SaveInit ==
  /\ BaseInit /\ CompareIdle /\ ReqIdle
  /\ SaveCalled

SaveNext ==
  \/ ParseLine
  \/ ParseReturn

SpecSave == SaveInit /\ [][SaveNext]_vars /\ WF_vars(SaveNext)

\* ------------------------------------------------------------------ C1
\* C1: in any sequence of suspend()/resume() calls, the workers' suspend() is
\* invoked (on every registered worker) by exactly the call that takes the
\* counter from 0 to 1, and their resume() by exactly the call that takes it
\* from 1 to 0; every other call invokes nothing.
C1_InvokedOnlyOnEdge ==
  \A t \in Callers :
    /\ rpc[t] = "s_ret" =>
         /\ _count = rpre[t] + 1
         /\ rinv[t] = (IF rpre[t] = 0 THEN _workers ELSE <<>>)
         /\ \A w \in Range(rinv[t]) : _suspend[w]
    /\ rpc[t] = "r_ret" =>
         /\ _count = (IF rpre[t] > 0 THEN rpre[t] - 1 ELSE rpre[t])
         /\ rinv[t] = (IF rpre[t] = 1 THEN _workers ELSE <<>>)
         /\ \A w \in Range(rinv[t]) : ~_suspend[w]

\* a nested resume() (2 -> 1) that invoked nothing, with workers registered
\* and still suspended
C1_Witness ==
  \E t \in Callers :
    /\ rpc[t] = "r_ret" /\ rpre[t] = 2 /\ _count = 1
    /\ Len(_workers) = 2
    /\ \A w \in Range(_workers) : _suspend[w]

\* ------------------------------------------------------------------ C2
\* C2: under concurrent calls no update of the counter is lost: whenever no
\* call is in progress the counter equals the number of callers whose
\* suspend() is still outstanding.
C2_CounterAtomic ==
  RegIdle => _count = Cardinality({t \in Callers : rheld[t]})

\* ---- C3: every read or write of an entry's _last_value, _initialized or
\* _pvget_completer, by the thread of _run or by a thread inside value, get,
\* save_pv or restore_pv, is made while that thread holds the entry's
\* _pvget_lock, and at most one thread holds the lock.
C3_GuardedAccess ==
  [][ /\ \A p \in PVs : Cardinality(_pvget_lock'[p]) <= 1
      /\ \A t \in Callers :
           (cpc[t] \in {"v_read", "v_if", "v_set", "g_get", "v_store"} /\ cpc'[t] # cpc[t])
             => t \in _pvget_lock[cpv[t]]
      /\ (upc \in {"start", "complete"} /\ uidx <= Len(_pvs) /\ uidx' # uidx)
             => UpdaterThread \in _pvget_lock[_pvs[uidx]]
    ]_vars

\* ---- C4: over any interleaving of reads of pv.value with the cycles of _run,
\* the value property fetches at most once per entry, and only when the entry
\* has no cached value.
C4_FetchOnceWhenEmpty ==
  /\ \A p \in PVs : nfetch[p] <= 1
  /\ \A t \in Callers :
       (cop[t] = "value" /\ cpc[t] \in {"v_set", "g_lock", "g_get"}) => IsNone(ccache[t])

\* ---- C5: restore_pv never blocks: it neither waits for the entry's
\* _pvget_lock nor makes a synchronous fetch.
C5_RestoreNeverBlocks ==
  \A t \in Callers : cop[t] = "restore" => cpc[t] \notin {"g_lock", "g_get"}

\* ---- C6: restore_pv on an entry that is disconnected, or connected without
\* write access, reports access_err (once, before it returns) and issues no
\* put, whatever the value; write_access is asked only when connected
\* answered yes.
C6_RestoreAccessError ==
  \A t \in Callers :
    (cop[t] = "restore" /\ (cconn[t] # "up" \/ cacc[t] # "granted") /\ cpc[t] # "r_check")
      => /\ cpc[t] = "ret"
         /\ cstat[t] = <<"access_err">>
         /\ cput[t] = "none"
         /\ cconn[t] \in {"up", "down"}
         /\ cconn[t] = "down" => cacc[t] = "unasked"

C6_Witness ==
  \E t \in Callers :
    /\ cop[t] = "restore" /\ cpc[t] = "ret"
    /\ cconn[t] = "up" /\ cacc[t] = "denied"
    /\ ~IsNone(carg[t])
    /\ cstat[t] = <<"access_err">> /\ cput[t] = "none"

\* ---- C7: restore_pv on a connected, writable entry with a defined value
\* that compares equal (tolerance 0) to the entry's cached value reports equal
\* and issues no put, whether or not the entry is initialized.
C7_EqualNeverWrites ==
  [][ \A t \in Callers :
        ( /\ cpc[t] = "r_cmp" /\ cpc'[t] = "ret"
          /\ ~IsNone(carg[t])
          /\ ~CompareRaises(carg[t], ccache[t], is_array[cpv[t]], 0)
          /\ Compare(carg[t], ccache[t], is_array[cpv[t]], 0) )
        => (cstat'[t] = <<"equal">> /\ cput'[t] = "none")
    ]_vars

\* ---- C8: save_pv on an entry that is disconnected, or connected without
\* read access, returns (None, access_err) straight from the tests, without
\* entering get(); read_access is asked only when connected answered yes.
C8_SaveAccessError ==
  \A t \in Callers :
    (cop[t] = "save" /\ (cconn[t] # "up" \/ cacc[t] # "granted") /\ cpc[t] # "s_check")
      => /\ cpc[t] = "ret"
         /\ IsNone(cret[t])
         /\ IsNone(cval[t])
         /\ cstat[t] = <<"access_err">>
         /\ cconn[t] \in {"up", "down"}
         /\ cconn[t] = "down" => cacc[t] = "unasked"

C8_Witness ==
  \E t \in Callers :
    /\ cop[t] = "save" /\ cpc[t] = "ret"
    /\ cconn[t] = "down" /\ cacc[t] = "unasked"
    /\ IsNone(cret[t]) /\ cstat[t] = <<"access_err">>
    /\ _pvget_completer[cpv[t]]

\* ---- C9: save_pv on a connected, readable entry returns (None, no_value)
\* when the fetch gave nothing (None, or an empty array for an array entry),
\* and otherwise (value, ok) with a defined value, a lone element of an array
\* entry wrapped in a one-element array.
C9_SaveStatus ==
  [][ \A t \in Callers :
        (cpc[t] = "s_norm" /\ cpc'[t] = "ret")
        => IF IsNone(cval[t]) \/ (is_array[cpv[t]] /\ Size(cval[t]) = 0)
             THEN IsNone(cret'[t]) /\ cstat'[t] = <<"no_value">>
             ELSE /\ cstat'[t] = <<"ok">>
                  /\ cret'[t].kind \in {"scalar", "ndarray"}
                  /\ (is_array[cpv[t]] /\ Size(cval[t]) = 1)
                       => cret'[t] = NdArray(cval[t].elems)
    ]_vars

\* ---- C10 (as stated): once stop() has returned, no entry's cached value is
\* written any more.
C10_NoCacheWriteAfterStop ==
  [][ spc = "returned" => _last_value' = _last_value ]_vars

\* ---- C10: once stop() has returned, the thread of _run is outside its
\* cycle for good (ended, or never started a cycle), and a cached value
\* changes only by a thread inside value / get.
C10_StoppedThreadWritesNothing ==
  [][ spc' = "returned" =>
        /\ upc' \in {"new", "while", "dead"}
        /\ (spc = "returned" /\ _last_value' # _last_value)
             => \E t \in Callers :
                  cpc[t] \in {"g_get", "v_store"} /\ cpc'[t] # cpc[t]
    ]_vars

C10_Witness ==
  /\ spc = "returned"
  /\ upc = "dead"
  /\ \E t \in Callers :
       /\ cpc[t] = "v_store"
       /\ ~IsNone(cval[t])
       /\ cval[t] # _last_value[cpv[t]]

\* ---- C11: in a cycle of _run the list vals gets one position per entry of
\* self._pvs, in the order of that list: the i-th _get_complete appends, at
\* position i, the value it got for the i-th entry (the value it stored in
\* that entry's cache) or None; the finished list is as long as self._pvs.
C11_ValsInListOrder ==
  [][ /\ (upc = "complete" /\ uidx <= Len(_pvs) /\ uidx' # uidx)
           => /\ Len(vals) = uidx - 1
              /\ Len(vals') = uidx
              /\ SubSeq(vals', 1, uidx - 1) = vals
              /\ \/ IsNone(vals'[uidx]) /\ _last_value' = _last_value
                 \/ /\ ~IsNone(vals'[uidx])
                    /\ _last_value' = [_last_value EXCEPT ![_pvs[uidx]] = vals'[uidx]]
      /\ upc' = "release" => Len(vals') = Len(_pvs')
      /\ (upc = "release" /\ upc' = "callback") => vals' = vals
    ]_vars

\* the second of two entries, polled in the order <<2, 1>>, has delivered a
\* value after the first timed out
C11_Witness ==
  /\ upc = "release"
  /\ Len(_pvs) = 2 /\ _pvs[1] > _pvs[2]
  /\ Len(vals) = 2
  /\ IsNone(vals[1]) /\ ~IsNone(vals[2])
  /\ _last_value[_pvs[2]] = vals[2]

\* ---- C12: with a slow entry (its read never completes) and fast ones, in
\* any list order, every cycle that runs finishes: the list it hands to the
\* callback has a value for every fast entry, that value is in the entry's
\* cache, and the thread goes on to its next sleep (or ends on stop()).
C12_FastDeliveredDespiteSlow ==
  /\ [](upc = "release" =>
          /\ Len(vals) = Len(_pvs)
          /\ \A i \in 1..Len(_pvs) :
               _pvs[i] # SlowPv =>
                 (~IsNone(vals[i]) /\ _last_value[_pvs[i]] = vals[i]))
  /\ (upc = "acquire") ~> (upc = "callback")
  /\ (upc = "callback") ~> (upc \in {"sleep", "dead"})

\* the slow entry is polled first and has timed out, its get still in
\* flight; the fast entry after it has delivered
C12_Witness ==
  /\ upc = "release"
  /\ Len(_pvs) = 2 /\ _pvs[1] = SlowPv
  /\ IsNone(vals[1]) /\ ~IsNone(vals[2])
  /\ _last_value[_pvs[2]] = vals[2]
  /\ _pvget_completer[SlowPv]

\* ---- C20: a cycle of _run that finds self._suspend set does none of the
\* cycle's work: it goes back to the head of the loop with no entry touched
\* (no lock taken, no get issued, no cached value or _initialized changed),
\* no list for the callback, and self._lock released; the work of a cycle
\* runs only with the flag clear.
C20_SuspendedCycleIsNoOp ==
  /\ [](_lock => ~_suspend[TheUpdater])
  /\ [][ (upc = "sleep" /\ _suspend[TheUpdater] /\ upc' \notin {"sleep", "dead"})
          => /\ upc' = "while"
             /\ ~_lock'
             /\ UNCHANGED <<is_array, _last_value, _initialized, _pvget_lock, _pvget_completer>>
             /\ UNCHANGED <<vals, uidx>>
      ]_vars

\* a suspended updater at the end of its period, with an entry registered
\* that has a cached value and a get still in flight
C20_Witness ==
  /\ upc = "sleep"
  /\ _suspend[TheUpdater]
  /\ ~_quit
  /\ _pvs = <<Entry>>
  /\ ~IsNone(_last_value[Entry])
  /\ _pvget_completer[Entry]

\* ---- C18: for numeric scalars value1, value2 and a tolerance >= 0, compare
\* returns True when |value1 - value2| <= tolerance and False when it is
\* larger, with is_array set or not; with tolerance 0 that is equality.
C18_WithinTolerance ==
  LET c == compare_call IN
    (c.result \notin {"idle", "called"} /\ c.value1.kind = "scalar" /\ c.value2.kind = "scalar")
      => c.result =
           (IF Abs(c.value1.elems[1] - c.value2.elems[1]) <= c.tolerance
              THEN "True" ELSE "False")

\* 0 and 2 compared with tolerance 1
C18_Witness ==
  /\ compare_call.result = "False"
  /\ compare_call.value1 = Scalar(0) /\ compare_call.value2 = Scalar(2)
  /\ compare_call.tolerance = 1

\* ---- C19: with is_array set, compare holds a one-element array equal to
\* the scalar that is its element; an empty array counts as absent, like
\* None; and when either operand is absent the result is True exactly when
\* both are (so an empty array never equals 0 or any other defined value).
C19_ArrayNormalisation ==
  LET c == compare_call
      absent(v) == IsNone(v) \/ (v.kind = "ndarray" /\ Len(v.elems) = 0)
      lone(v, w) == v.kind = "ndarray" /\ Len(v.elems) = 1 /\ w = Scalar(v.elems[1])
  IN (c.is_array /\ c.result \notin {"idle", "called"})
       => /\ (lone(c.value1, c.value2) \/ lone(c.value2, c.value1))
               => c.result = "True"
          /\ (absent(c.value1) \/ absent(c.value2))
               => c.result = (IF absent(c.value1) /\ absent(c.value2) THEN "True" ELSE "False")

\* an empty array compared with the scalar 0
C19_Witness ==
  /\ compare_call.is_array
  /\ compare_call.value1 = NdArray(<<>>) /\ compare_call.value2 = Scalar(0)
  /\ compare_call.result = "False"

\* ---- C13: for request files with any include graph, read() ends; the
\* chain of files being read never holds a path twice; an include line
\* raises the loop error exactly when its target is the including file or
\* one of its ancestors, before the target is opened, and the error names
\* the target and the file it was already called from; so read() raises the
\* loop error exactly when the root reaches a file that includes itself,
\* and a file included twice from different lines is no loop.
C13_LoopDetection ==
  /\ <>(req_result.status \in {"ok", "ReqFileInfLoopError"})
  /\ [](\A i, j \in 1..Len(req_chain) : req_chain[i].path = req_chain[j].path => i = j)
  /\ [](req_result.status = "ok" => ~RootReachesLoop)
  /\ [](req_result.status = "ReqFileInfLoopError" => RootReachesLoop)
  /\ [][ (ReqAtLine /\ ReqLine.kind = "inc")
          => LET ancestors == {req_chain[i].path : i \in 1..Len(req_chain)}
                 callers == {req_chain[i].path : i \in 1..(Len(req_chain) - 1)}
             IN  IF ReqLine.path \in ancestors
                   THEN /\ req_result'.status = "ReqFileInfLoopError"
                        /\ req_result'.loop[1] = ReqLine.path
                        /\ req_result'.loop[2] \in callers \cup {0}
                        /\ req_result'.loop[2] = 0 <=> ReqLine.path = RootPath
                   ELSE /\ req_result'.status = "reading"
                        /\ req_chain'[Len(req_chain')].path = ReqLine.path
      ]_vars

\* the root has included the second file from its first line and has
\* entered it again from its second line, with no error raised
C13_Witness ==
  /\ req_result.status = "reading"
  /\ Len(req_chain) = 2
  /\ req_chain[1].line_n = 2
  /\ ReqTop.path # RootPath
  /\ Len(req_files[RootPath]) = 2
  /\ \A i \in 1..2 : req_files[RootPath][i].path = ReqTop.path

\* ---- C14: when the PV name of a PV line, or the macros argument of an
\* include line, still holds after substitution a token $(K) with K neither
\* a key of the macros of the file being read nor in its changeable macros,
\* that line raises the macro error (ReqParseError) naming every such K, and
\* so no PV list is returned; this for every macros dict, those whose
\* values hold macro tokens included.
C14_UndefinedMacroRaises ==
  [][ (ReqAtLine /\ (ReqLine.kind = "pv" \/ (ReqLine.kind = "inc" /\ ReqLine.has_arg /\ ReqLine.quoted)))
      => LET txt == IF ReqLine.kind = "pv"
                      THEN macros_substitution(ReqLine.txt, ReqTop.macros)
                      ELSE MacroTxt(SubstitutePieces(ReqLine.arg, ReqTop.macros))
             undefined == {txt[i].s : i \in {j \in 1..Len(txt) :
                              /\ txt[j].t = "mac"
                              /\ txt[j].s \notin Keys(ReqTop.macros)
                              /\ txt[j].s \notin ReqTop.c_macros}}
         IN  undefined # {} =>
               /\ req_result'.status = "ReqParseError"
               /\ undefined \subseteq req_result'.named
               /\ req_result'.pvs = <<>>
               /\ req_chain' = <<>>
    ]_vars

\* ---- C15: a PV line, in the root file or in an included one, that holds
\* a token $(K) with K in the changeable macros given to the root (and K no
\* key of the macros of the file being read) raises no macro error naming
\* K, and when the line raises nothing the PV name it appends still holds
\* $(K).
C15_ChangeableMacroKept ==
  [][ (ReqAtLine /\ ReqLine.kind = "pv")
      => \A i \in 1..Len(ReqLine.txt) :
           ( /\ ReqLine.txt[i].t = "mac"
             /\ ReqLine.txt[i].s \in req_chain[1].c_macros
             /\ ReqLine.txt[i].s \notin Keys(ReqTop.macros) )
           => /\ ReqLine.txt[i].s \notin req_result'.named
              /\ req_result'.status = "reading" =>
                    /\ Len(req_chain') = Len(req_chain)
                    /\ LET pvs == req_chain'[Len(req_chain')].pvs
                       IN  /\ Len(pvs) = Len(ReqTop.pvs) + 1
                           /\ \E j \in 1..Len(pvs[Len(pvs)]) :
                                 pvs[Len(pvs)][j] = ReqLine.txt[i]
    ]_vars

\* ---- C16: read() returns the depth-first, in-order flattening
\* of the include tree: the lines of a file in their order, a skipped line
\* giving nothing, a PV line its name under the macros of its file, an
\* include line the names of the child under the macros parsed from that
\* line's argument. In particular a root holding !B,"X=1" with B holding
\* pv$(X) resolves to <<"pv1">>.
C16_DepthFirstFlattening ==
  /\ req_chain # <<>> =>
       ReqTop.pvs = Flatten(ReqTop.path, ReqTop.line_n, ReqTop.macros)
  /\ req_result.status = "ok" =>
       req_result.pvs = Flatten(RootPath, Len(req_files[RootPath]), <<Item("X", <<Lit("0")>>)>>)
  /\ ( /\ req_result.status = "ok"
       /\ req_files[RootPath] = <<IncludeLine(RootPath + 1, TRUE, TRUE, <<Piece("X", <<Lit("1")>>, TRUE)>>)>>
       /\ req_files[RootPath + 1] = <<PvNameLine(<<Lit("pv"), Mac("X")>>)>> )
     => req_result.pvs = << <<Lit("pv"), Lit("1")>> >>

\* the root included the second file, which holds two PV lines, with "X=1"
\* and then with "X=2", and has returned
C16_Witness ==
  /\ req_result.status = "ok"
  /\ Len(req_result.pvs) = 4
  /\ req_result.pvs[2] = <<Lit("pv"), Lit("1")>>
  /\ req_result.pvs[3] = <<Lit("pv"), Lit("2")>>

\* ---- C17: parse_from_save_file(path) (metadata_only left False) on any
\* sequence of lines: a line that is not blank and does not start with "#"
\* puts an entry for its PV name into saved_pvs and leaves the entries of
\* all other names as they were; when its value literal cannot be decoded
\* the entry's value is None and exactly one error, naming the PV, is added
\* after the errors already there, otherwise no error is added; the loop
\* goes on to the next line either way, so that at the return every line
\* has been taken, saved_pvs holds exactly the names of the PV lines, each
\* with the value of its last line, and err holds one value error per
\* undecodable line, in line order.
C17_PartialFailure ==
  /\ [][ (SaveAtLine /\ ~metadata_only /\ SaveLine.kind = "pv")
          => LET name == SaveLine.pvname
             IN  /\ DOMAIN saved_pvs' = DOMAIN saved_pvs \cup {name}
                 /\ \A other \in DOMAIN saved_pvs \ {name} : saved_pvs'[other] = saved_pvs[other]
                 /\ IF Undecodable(save_line_n + 1)
                      THEN /\ IsNone(saved_pvs'[name])
                           /\ err' = Append(err, ValueError(name))
                      ELSE /\ saved_pvs'[name] = SaveLineValue(SaveLine)
                           /\ err' = err
                 /\ save_pc' = "for"
                 /\ save_line_n' = save_line_n + 1
      ]_vars
  /\ []( (save_pc = "done" /\ ~metadata_only)
         => /\ save_line_n = Len(saved_file)
            /\ DOMAIN saved_pvs = {saved_file[i].pvname : i \in PvLineNs}
            /\ \A name \in DOMAIN saved_pvs :
                  saved_pvs[name] = (IF Undecodable(LastOf(name)) THEN None
                                     ELSE SaveLineValue(saved_file[LastOf(name)]))
            /\ Len(ValueErrors) = Len(BadLines)
            /\ \A k \in 1..Len(BadLines) : ValueErrors[k].pvname = saved_file[BadLines[k]].pvname )

\* three PV lines, the middle one undecodable: the call has returned with the
\* values of the first and the last line and one error
C17_Witness ==
  /\ save_pc = "done"
  /\ ~metadata_only
  /\ Len(saved_file) = 3
  /\ saved_file[1] = SavePv("a", TRUE, "1")
  /\ saved_file[2] = SavePv("b", TRUE, "1.")
  /\ saved_file[3] = SavePv("c", TRUE, "[1, 0]")
  /\ saved_pvs["a"] = Scalar(1)
  /\ IsNone(saved_pvs["b"])
  /\ saved_pvs["c"] = NdArray(<<1, 0>>)
  /\ err = <<NoMetaError, ValueError("b")>>

\* ---- C21: in a cycle, _get_complete on an entry whose read completes
\* puts the value read into the entry's cache (and into vals) and clears the
\* completer; when the read times out or the entry is disconnected the cache
\* of every entry and every completer stay as they were, so a get in flight
\* stays pending, and vals gets None; no outcome stops the cycle, which goes
\* on to the next entry.
C21_CacheUpdatedOnCompletion ==
  [][ (upc = "complete" /\ uidx <= Len(_pvs))
      => LET pv == _pvs[uidx]
         IN  /\ uobs'.step = "complete"
             /\ uobs'.get = "value" =>
                   /\ ~IsNone(vals'[uidx])
                   /\ _last_value' = [_last_value EXCEPT ![pv] = vals'[uidx]]
                   /\ _pvget_completer' = [_pvget_completer EXCEPT ![pv] = FALSE]
             /\ uobs'.get \in {"timeout", "disconnected"} =>
                   /\ IsNone(vals'[uidx])
                   /\ _last_value' = _last_value
                   /\ _pvget_completer' = _pvget_completer
             /\ upc' = "complete" /\ uidx' = uidx + 1
    ]_vars

\* the read of an entry with a cached value and a get in flight has just
\* timed out
C21_Witness ==
  /\ upc = "complete"
  /\ uobs = Obs("complete", "none", "timeout")
  /\ uidx > 1
  /\ _pvget_completer[_pvs[uidx - 1]]
  /\ ~IsNone(_last_value[_pvs[uidx - 1]])
  /\ IsNone(vals[uidx - 1])

\* ---- C22: in a cycle, for an entry that is not initialized the loop body
\* does not skip the metadata fetch (it is made whenever the entry is
\* connected, in every cycle that finds the entry uninitialized); a fetch that
\* times out leaves the entry uninitialized; the body sets _initialized
\* only for its own entry and only when the fetch answered; and _get_start
\* is called in the same step whatever the fetch gave, the completer being
\* set when the get was issued.
C22_InitOnlyOnSuccess ==
  [][ upc = "start"
      => LET pv == _pvs[uidx]
         IN  /\ uobs'.step = "start"
             /\ ~_initialized[pv] => uobs'.ctrl \in {"disconnected", "timeout", "ok"}
             /\ uobs'.ctrl = "timeout" => ~_initialized'[pv]
             /\ _initialized' # _initialized =>
                   /\ uobs'.ctrl = "ok"
                   /\ _initialized' = [_initialized EXCEPT ![pv] = TRUE]
             /\ uobs'.get \in StartOutcomes
             /\ uobs'.get = "issued" => _pvget_completer'[pv]
             /\ _pvget_completer' # _pvget_completer => uobs'.get = "issued"
    ]_vars

\* the metadata fetch of an entry has timed out in a second cycle, the
\* entry is still uninitialized, and its get was issued in the same step
C22_Witness ==
  /\ upc = "acquire"
  /\ uobs = Obs("start", "timeout", "issued")
  /\ uidx > 1
  /\ ~_initialized[_pvs[uidx - 1]]
  /\ _pvget_completer[_pvs[uidx - 1]]
  /\ ~IsNone(_last_value[_pvs[uidx - 1]])

\* ---- C23: the time a cycle waits in _get_complete is at most one period
\* in total, however many of its entries are slow or disconnected.
C23_WaitBoundedByOnePeriod == uwait <= 1

\* ---- C24: a cycle that has taken self._lock goes on until it has
\* released every entry's _pvget_lock and self._lock, for any list given to
\* set_pvs: while the cycle holds self._lock its thread always has a next
\* step (it never waits for a lock that no other thread will release), and
\* once self._lock is released the thread holds no _pvget_lock.
C24_CycleReleasesAll ==
  /\ _lock => ENABLED CycleRun
  /\ ~_lock => \A p \in PVs : UpdaterThread \notin _pvget_lock[p]

\* ---- C25: while the updater is suspended (suspend() has returned and
\* resume() has not been called) the thread of _run issues no get, completes
\* none (so writes no entry's cache) and invokes no callback, wherever the
\* cycle was when suspend() was called.
C25_QuietWhileSuspended ==
  [][ (_suspend[TheUpdater] /\ _suspend'[TheUpdater])
      => /\ ~(upc = "start" /\ upc' # "start")
         /\ ~(upc = "complete" /\ uidx' # uidx)
         /\ ~(upc = "callback" /\ upc' # "callback")
         /\ (upc' # upc \/ uidx' # uidx) => _last_value' = _last_value
    ]_vars

\* ---- C26: when the callback is invoked the list vals it gets is as long
\* as the list self._pvs is then, one position per entry, whenever set_pvs()
\* was called.
C26_ValsMatchRegisteredList ==
  [][ (upc = "callback" /\ upc' # "callback") => Len(vals) = Len(_pvs) ]_vars

\* ---- C27: a restore_pv call reports one status to its callback, never
\* more: access_err, no_value or equal from within the call, with no put
\* issued; otherwise one put is issued, and type_err is reported when it is
\* rejected, ok when it completes, never both; the call is over (its put
\* answered) with exactly one status reported.
C27_OneStatusPerRestore ==
  \A t \in Callers :
    (cop[t] = "restore" /\ cpc[t] = "ret") =>
      /\ Len(cstat[t]) <= 1
      /\ cput[t] = "pending" => cstat[t] = <<>>
      /\ cput[t] = "done" => cstat[t] = <<"ok">>
      /\ cput[t] = "none" =>
            cstat[t] \in {<<"access_err">>, <<"no_value">>, <<"equal">>, <<"type_err">>}

\* ---- C28: compare on two non-empty arrays of different lengths returns
\* False, for every tolerance and either is_array; it neither returns True
\* nor raises.
C28_DifferentLengthsDiffer ==
  LET c == compare_call
  IN  ( /\ c.result # "called"
        /\ c.value1.kind = "ndarray" /\ c.value2.kind = "ndarray"
        /\ Len(c.value1.elems) > 0 /\ Len(c.value2.elems) > 0
        /\ Len(c.value1.elems) # Len(c.value2.elems) )
      => c.result = "False"
====
